---- MODULE Spec2Model ----
(***************************************************************************)
(* Model of the Silabs ZCL loader (src/unnamed/part_001, lines 177-1306):  *)
(* the manifest load loadSilabsZcl with its per-file fan-out               *)
(* (parseZclFiles / parseSingleZclFile / processParsedZclData) and the     *)
(* standalone load loadIndividualSilabsFile.  Every awaited store or file  *)
(* operation is a promise that settles in a later step, successfully or    *)
(* with an error.                                                          *)
(***************************************************************************)
EXTENDS Integers, Sequences, FiniteSets, TLC

\* Number of xml files named by the manifest (ctx.zclFiles).
NumFiles == 2

Files == 1..NumFiles

\* Toplevel tags of a parsed xml file, as branched by processParsedZclData.
Step1Tags == {"domain"}
Step2Tags == {"atomic", "bitmap", "cluster", "enum", "struct", "deviceType", "global"}
Step3Tasks == {"globalAttribute", "clusterExtension"}
InsertTags == Step1Tags \cup Step2Tags

\* The contents of the xml files the model is run on.  Only the first file
\* may consist of device types, and the files after the second are of the
\* shape of the second.
FileShapes ==
  { {"domain", "cluster"},
    {"atomic", "clusterExtension"},
    {"deviceType"} }

\* Option categories of the manifests the model is run on.
Cats == {"manufacturerCodes", "defaultResponsePolicy", "commandDiscovery"}

\* A default of the manifest: of defaults.text (txt is the number n if num,
\* else the text s) or of defaults.bool (value).
TextDefault(cat, num, n, s) ==
  [kind |-> "text", cat |-> cat, num |-> num, n |-> n, s |-> s, value |-> FALSE]
BoolDefault(cat, value) ==
  [kind |-> "bool", cat |-> cat, num |-> FALSE, n |-> 0, s |-> <<>>, value |-> value]

\* The manifests the model is run on: which optional keys are present, the
\* values of options.text by category, the categories of options.bool, and
\* the defaults.  The first loads; the second has few keys; the defaults of
\* the third match no option, one of them the text 16 where the option is
\* 0x10; the fourth has the options 16 and 0x10 and the number 16 as default.
\* The files of the first are of any shape, those of the others of one shape.
Manifests ==
  { [version |-> TRUE, manufacturersXml |-> TRUE, supportCustomZclDevice |-> TRUE,
     options |-> TRUE, defaults |-> TRUE, zclSchema |-> TRUE,
     textOptions |-> {[cat |-> "defaultResponsePolicy", value |-> <<"A">>]},
     boolOptions |-> {"commandDiscovery"},
     defaultValues |-> {TextDefault("manufacturerCodes", TRUE, 16, <<>>),
                        TextDefault("defaultResponsePolicy", FALSE, 0, <<"a">>),
                        BoolDefault("commandDiscovery", TRUE)}],
    [version |-> FALSE, manufacturersXml |-> FALSE, supportCustomZclDevice |-> FALSE,
     options |-> TRUE, defaults |-> FALSE, zclSchema |-> FALSE,
     textOptions |-> {[cat |-> "defaultResponsePolicy", value |-> <<"A">>]},
     boolOptions |-> {},
     defaultValues |-> {}],
    [version |-> FALSE, manufacturersXml |-> FALSE, supportCustomZclDevice |-> FALSE,
     options |-> TRUE, defaults |-> TRUE, zclSchema |-> FALSE,
     textOptions |-> {[cat |-> "defaultResponsePolicy", value |-> <<"A">>],
                      [cat |-> "manufacturerCodes", value |-> <<"0", "x", "1", "0">>]},
     boolOptions |-> {},
     defaultValues |-> {TextDefault("defaultResponsePolicy", FALSE, 0, <<"b">>),
                        TextDefault("manufacturerCodes", FALSE, 0, <<"1", "6">>),
                        BoolDefault("commandDiscovery", TRUE)}],
    [version |-> FALSE, manufacturersXml |-> FALSE, supportCustomZclDevice |-> FALSE,
     options |-> TRUE, defaults |-> TRUE, zclSchema |-> FALSE,
     textOptions |-> {[cat |-> "manufacturerCodes", value |-> <<"1", "6">>],
                      [cat |-> "manufacturerCodes", value |-> <<"0", "x", "1", "0">>]},
     boolOptions |-> {},
     defaultValues |-> {TextDefault("manufacturerCodes", TRUE, 16, <<>>)}] }

NoManifest ==
  [version |-> FALSE, manufacturersXml |-> FALSE, supportCustomZclDevice |-> FALSE,
   options |-> FALSE, defaults |-> FALSE, zclSchema |-> FALSE,
   textOptions |-> {}, boolOptions |-> {}, defaultValues |-> {}]

(***************************************************************************)
(* Texts and numbers.  A text is a sequence of characters.                 *)
(***************************************************************************)
\* An attribute that the element does not carry.
Undefined == <<"undefined">>

\* The values NaN, null and undefined of a prepared field that otherwise
\* holds a non-negative integer.
JsNaN == -1
JsNull == -2
JsUndefined == -3

\* The digits of the language, in lower and in upper case.
HexDigits == <<"0", "1", "2", "3", "4", "5", "6", "7", "8", "9", "a", "b", "c", "d", "e", "f">>
HexUpper == <<"0", "1", "2", "3", "4", "5", "6", "7", "8", "9", "A", "B", "C", "D", "E", "F">>

\* The value of character c as a digit (16: not a digit).
DigitVal(c) ==
  IF \E i \in 1..16 : HexDigits[i] = c
  THEN (CHOOSE i \in 1..16 : HexDigits[i] = c) - 1
  ELSE IF \E i \in 1..16 : HexUpper[i] = c
  THEN (CHOOSE i \in 1..16 : HexUpper[i] = c) - 1
  ELSE 16

\* Length of the longest prefix of s that consists of digits of radix r.
RECURSIVE DigitPrefix(_, _)
DigitPrefix(s, r) ==
  IF s = <<>> \/ DigitVal(Head(s)) >= r THEN 0
  ELSE 1 + DigitPrefix(Tail(s), r)

\* The number written by the first n characters of s in radix r.
RECURSIVE DigitsValue(_, _, _)
DigitsValue(s, n, r) ==
  IF n = 0 THEN 0 ELSE DigitsValue(s, n - 1, r) * r + DigitVal(s[n])

\* parseInt(s, radix) of the language; radix 0 stands for a call without
\* radix.  A prefix 0x selects radix 16, parsing stops at the first
\* character that is no digit, and without a digit the result is NaN.
parseInt(s, radix) ==
  LET prefixed == /\ radix \in {0, 16}
                  /\ Len(s) >= 2
                  /\ s[1] = "0"
                  /\ s[2] \in {"x", "X"}
      r == IF radix # 0 THEN radix ELSE IF prefixed THEN 16 ELSE 10
      body == IF prefixed THEN SubSeq(s, 3, Len(s)) ELSE s
      n == DigitPrefix(body, r)
  IN IF n = 0 THEN JsNaN ELSE DigitsValue(body, n, r)

\* n.toString(r) of the language, for a number n >= 0.
RECURSIVE toString(_, _)
toString(n, r) ==
  IF n < r THEN <<HexDigits[n + 1]>>
  ELSE toString(n \div r, r) \o <<HexDigits[(n % r) + 1]>>

\* s.toLowerCase() of the language, on the letters that are digits.
toLowerCase(s) ==
  [i \in 1..Len(s) |->
     IF \E k \in 11..16 : HexUpper[k] = s[i]
     THEN HexDigits[CHOOSE k \in 11..16 : HexUpper[k] = s[i]]
     ELSE s[i]]

\* Errors: what failed, and for which file (0: no file).
NoErr == [kind |-> "none", file |-> 0]
Err(k, f) == [kind |-> k, file |-> f]
\* laterPromises.map((promise) => promise()) applied to an undefined entry.
TypeErr == Err("TypeError: promise is not a function", 0)

Pending == [state |-> "pending", succeeded |-> FALSE, err |-> NoErr]

VARIABLES
  mode,         \* "manifest": loadSilabsZcl, "individual": loadIndividualSilabsFile
  shape,        \* shape[f]: the toplevel tags of file f
  validator,    \* boundValidator: "none", "valid", "invalid", "throws"
  ctx,          \* the manifest keys collected into ctx
  pc,           \* position of the toplevel function
  caught,       \* error caught by the try of loadSilabsZcl
  result,       \* settlement of the promise returned to the caller
  trace,        \* the awaited steps of loadSilabsZcl started so far, in order
  tx,           \* transaction on the store handle: "none", "open", "commitIssued", "committed"
  beginCount,   \* number of dbBeginTransaction calls that opened a transaction
  commitCount,  \* number of dbCommit calls
  uncommitted,  \* rows inserted inside the open transaction
  committed,    \* rows visible to readers
  fpc,          \* fpc[f]: position of the per-file function
  ferr,         \* ferr[f]: error logged by the catch of parseSingleZclFile
  fret,         \* fret[f]: settlement of the promise of parseSingleZclFile
  ins,          \* ins[f][t]: phase-1 / phase-2 insertion of tag t of file f
  p3,           \* p3[f][t]: phase-3 task t of file f
  post,         \* number of processZclPostLoading invocations
  prior,        \* the manifest and its files were loaded into the store before, unchanged
  manifest,     \* the content of the metadata file
  customFile,   \* the file that defines a device type with the custom code and name (0: none)
  known,        \* known[f]: what qualifyZclFile answered for file f
  customDev,    \* number of device types of the package with the custom code and name
  optRows,      \* the option rows of the package: category and code
  defRows,      \* the default rows of the package: category and option row
  optIns,       \* optIns[c]: the insertOptionsKeyValues call of parseOptions for category c
  dfl,          \* dfl[c]: the promise chain of parseDefaults for category c
  rest,         \* the add-package request: where its handler is, and its response
  links,        \* number of session-package links inserted by the handler
  fnArgs,       \* executePromisesSequentially: the delay of fn for each argument
  called,       \* number of arguments that fn was called on
  timers,       \* the timers that fn has set and that have not fired: argument and due time
  now,          \* the time of the timer that fired last
  array,        \* the arguments pushed by the timers of fn, in order
  settled,      \* the promise of executePromisesSequentially has resolved
  users,        \* the ids of the users of the store
  sessions,     \* the ids of the sessions of the store
  sessionUser,  \* the user of each session: pairs of session and user
  ens,          \* the last call of ensureZapUserAndSession: arguments, store before, result
  queries,      \* httpGetInitialState: the three queries of the request
  initialState, \* httpGetInitialState: the keys set in the state object
  responses,    \* httpGetInitialState: the responses sent, in order
  posts,        \* httpPostCluster: each request, where its promise chain is, its responses
  hasPackage,   \* the session has a package of type zclProperties
  clusterStates,   \* the (endpointTypeId, id, side) that have a cluster state row
  clusterDefaults, \* the number of times the defaults of a cluster were inserted
  pin,          \* the call of a prepare function: its name and its argument
  pout          \* the value the call has returned

vars == <<mode, shape, validator, ctx, pc, caught, result, trace, tx, beginCount,
          commitCount, uncommitted, committed, fpc, ferr, fret, ins, p3, post,
          prior, manifest, customFile, known, customDev, optRows, defRows, optIns, dfl,
          rest, links, fnArgs, called, timers, now, array, settled,
          users, sessions, sessionUser, ens, queries, initialState, responses,
          posts, hasPackage, clusterStates, clusterDefaults, pin, pout>>

\* The inputs of a load; no step of the load changes them.
InputVars == <<prior, manifest, customFile>>

\* A call of a prepare function; the prepare functions read and write no
\* state of the load.
PrepVars == <<pin, pout>>
NoCall == [fn |-> "none"]
NoResult == [done |-> FALSE]

\* The add-package request (src-electron/rest/user-data.js).
RestVars == <<rest, links>>
Request(at, code, isValid, err, thrown) ==
  [at |-> at, code |-> code, isValid |-> isValid, err |-> err, thrown |-> thrown]

\* The sequential execution of promises (util.js) and its test.
UtilVars == <<fnArgs, called, timers, now, array, settled>>
NoUtil ==
  /\ fnArgs = <<>>
  /\ called = 0
  /\ timers = {}
  /\ now = 0
  /\ array = <<>>
  /\ settled = FALSE

\* Users and sessions (query-session.js) and the request for the initial
\* state (rest/user-data.js).
SessionVars == <<users, sessions, sessionUser, ens>>
InitialStateVars == <<queries, initialState, responses>>
StateQueries == {"endpointTypes", "endpoints", "sessionKeyValues"}
NoEnsure ==
  [called |-> FALSE, userGiven |-> 0, sessionGiven |-> 0, userId |-> 0, sessionId |-> 0,
   usersBefore |-> {}, sessionsBefore |-> {}, linksBefore |-> {}]
NoServer ==
  /\ users = {}
  /\ sessions = {}
  /\ sessionUser = {}
  /\ ens = NoEnsure
  /\ queries = [q \in StateQueries |-> "none"]
  /\ initialState = {}
  /\ responses = <<>>

\* The cluster requests (rest/user-data.js): the number of requests, and the
\* clusters they name by endpointTypeId, id and side.
MaxPosts == 2
Posts == 1..MaxPosts
Triples == {<<1, 1, "client">>, <<1, 1, "server">>}
ClusterVars == <<posts, hasPackage, clusterStates, clusterDefaults>>
NoPost == [at |-> "none", triple |-> <<0, 0, "">>, flag |-> FALSE,
           insertDefaults |-> FALSE, responses |-> <<>>]
NoCluster ==
  /\ posts = [r \in Posts |-> NoPost]
  /\ hasPackage = FALSE
  /\ clusterStates = {}
  /\ clusterDefaults = [t \in Triples |-> 0]

\* The state outside the loader and the handler of its request.
SideVars == <<UtilVars, SessionVars, InitialStateVars, ClusterVars>>

\* The state that no step of a load changes.
IdleVars == <<InputVars, RestVars, SideVars, PrepVars>>

\* The state of parseOptions and parseDefaults.
PostVars == <<optRows, defRows, optIns, dfl>>

\* The state that the steps of loadSilabsZcl outside the file fan-out leave alone.
AuxVars == <<IdleVars, known, customDev, PostVars>>

Row(f, t) == [src |-> f, table |-> t]

(***************************************************************************)
(* The option and default rows of the package (query-package.js).          *)
(***************************************************************************)
\* No row: what a lookup without a match resolves with.
NoRow == [cat |-> "none", code |-> <<>>]

\* queryPackage.selectSpecificOptionValue: the option row of the category
\* with the given code.
selectSpecificOptionValue(rows, cat, code) ==
  IF [cat |-> cat, code |-> code] \in rows THEN [cat |-> cat, code |-> code] ELSE NoRow

\* The option rows that the load of manifest m inserts: the codes of the
\* manufacturers file (parseManufacturerData), the values of options.text in
\* lower case (parseTextOptions), and 1 and 0 for every category of
\* options.bool (parseBoolOptions).
OptionRowsOf(m) ==
  (IF m.manufacturersXml
   THEN {[cat |-> "manufacturerCodes", code |-> <<"0", "x", "1", "0">>]} ELSE {})
  \cup (IF m.options
        THEN {[cat |-> o.cat, code |-> toLowerCase(o.value)] : o \in m.textOptions}
             \cup {[cat |-> c, code |-> toString(b, 10)] : c \in m.boolOptions, b \in {0, 1}}
        ELSE {})

\* DefaultOption of a loader that looks up the 0x form of a number first.
DefaultOptionHexFirst(rows, d) ==
  IF d.kind = "bool"
  THEN selectSpecificOptionValue(rows, d.cat, toString(IF d.value THEN 1 ELSE 0, 10))
  ELSE LET exact == selectSpecificOptionValue(rows, d.cat,
                                              IF d.num THEN toString(d.n, 10) ELSE d.s)
           hex == selectSpecificOptionValue(rows, d.cat, <<"0", "x">> \o toString(d.n, 16))
       IN IF d.num /\ hex # NoRow THEN hex ELSE exact

\* The option row that the lookups of parseTextDefaults and parseBoolDefaults
\* come up with for default d: the exact match of the declared value, else,
\* for a text default that is a number, the match of its 0x form.
DefaultOption(rows, d) ==
  IF d.kind = "bool"
  THEN selectSpecificOptionValue(rows, d.cat, toString(IF d.value THEN 1 ELSE 0, 10))
  ELSE LET exact == selectSpecificOptionValue(rows, d.cat,
                                              IF d.num THEN toString(d.n, 10) ELSE d.s)
       IN IF exact # NoRow THEN exact
          ELSE IF d.num
          THEN selectSpecificOptionValue(rows, d.cat, <<"0", "x">> \o toString(d.n, 16))
          ELSE exact

\* AfterLookup of a loader that inserts the default whatever the lookup found.
AfterLookupInserts(d, row) == "insert"

\* The chain of default d once its lookups have resolved: parseTextDefaults
\* throws when no option matches, specificValue.id of parseBoolDefaults
\* raises a TypeError then, and otherwise insertDefaultOptionValue is called.
AfterLookup(d, row) ==
  IF row # NoRow THEN "insert"
  ELSE IF d.kind = "text" THEN "nomatch" ELSE "typeError"

\* The default rows that the load of manifest m inserts.
DefaultRowsOf(m) ==
  IF m.defaults
  THEN {[cat |-> d.cat, ref |-> DefaultOption(OptionRowsOf(m), d)] : d \in m.defaultValues}
  ELSE {}

\* Manifest m loads: each of its defaults matches one of its options.
Loadable(m) == \A r \in DefaultRowsOf(m) : r.ref # NoRow

Init ==
  /\ mode \in {"manifest", "individual"}
  /\ shape \in [Files -> FileShapes]
  /\ \A f \in Files : f > 1 => shape[f] # {"deviceType"}
  /\ \A f \in Files : f > 2 => shape[f] = shape[2]
  /\ validator \in {"none", "valid", "invalid", "throws"}
  /\ (mode = "manifest") => (validator = "none")
  /\ (mode = "individual") => (\A f \in Files : f > 1 => shape[f] = shape[1])
  /\ prior \in (IF mode = "manifest" THEN BOOLEAN ELSE {FALSE})
  /\ manifest \in (IF mode = "manifest" THEN Manifests ELSE {NoManifest})
  /\ known = [f \in Files |-> "pending"]
  /\ prior => Loadable(manifest)
  /\ (mode = "manifest" /\ ~manifest.zclSchema) => (\A f \in Files : shape[f] = shape[1])
  /\ customFile \in {0} \cup {f \in Files : mode = "manifest" /\ "deviceType" \in shape[f]}
  /\ customDev = IF prior /\ (manifest.supportCustomZclDevice \/ customFile # 0)
                 THEN 1 ELSE 0
  /\ optRows = IF prior THEN OptionRowsOf(manifest) ELSE {}
  /\ defRows = IF prior THEN DefaultRowsOf(manifest) ELSE {}
  /\ optIns = [c \in Cats |-> "none"]
  /\ dfl = [c \in Cats |-> "none"]
  /\ rest = Request(IF mode = "individual" THEN "load" ELSE "none", 0, FALSE, "", FALSE)
  /\ links = 0
  /\ NoUtil
  /\ NoServer
  /\ NoCluster
  /\ pin = NoCall
  /\ pout = NoResult
  /\ ctx = NoManifest
  /\ pc = IF mode = "manifest" THEN "begin" ELSE "individual"
  /\ caught = NoErr
  /\ result = Pending
  /\ trace = <<>>
  /\ tx = "none"
  /\ beginCount = 0
  /\ commitCount = 0
  /\ uncommitted = {}
  /\ committed = {}
  /\ fpc = [f \in Files |-> IF mode = "individual" /\ f = 1 THEN "read" ELSE "idle"]
  /\ ferr = [f \in Files |-> NoErr]
  /\ fret = [f \in Files |-> [state |-> "pending", tasks |-> <<>>, err |-> NoErr]]
  /\ ins = [f \in Files |-> [t \in InsertTags |-> "none"]]
  /\ p3 = [f \in Files |-> [t \in Step3Tasks |-> "none"]]
  /\ post = 0

(***************************************************************************)
(* The relational store: rows inserted while a transaction is open become  *)
(* visible to readers when the commit completes; without a transaction     *)
(* every insert is visible at once.                                        *)
(***************************************************************************)
StoreInsert(rows) ==
  IF tx \in {"open", "commitIssued"}
  THEN /\ uncommitted' = uncommitted \cup rows
       /\ committed' = committed
  ELSE /\ committed' = committed \cup rows
       /\ uncommitted' = uncommitted

(***************************************************************************)
(* loadSilabsZcl: the awaited steps, in order.                             *)
(***************************************************************************)
PostSteps ==
  <<"parseManufacturerData", "processCustomZclDeviceType", "parseOptions",
    "parseDefaults", "parseZclSchema">>

\* The condition under which loadSilabsZcl runs post-load step s.
StepEnabled(s, c) ==
  CASE s = "parseManufacturerData" -> c.manufacturersXml
    [] s = "processCustomZclDeviceType" -> c.supportCustomZclDevice
    [] s = "parseOptions" -> c.options
    [] s = "parseDefaults" -> c.defaults
    [] s = "parseZclSchema" -> c.zclSchema

\* The first post-load step at or after position i that the manifest asks for.
RECURSIVE NextStep(_, _)
NextStep(i, c) ==
  IF i > Len(PostSteps) THEN "finally"
  ELSE IF StepEnabled(PostSteps[i], c) THEN PostSteps[i]
  ELSE NextStep(i + 1, c)

\* An awaited step of the try block: it resolves, and the function goes on
\* to the next step, or it rejects, and control passes to catch/finally.
AwaitedStep(name, rows, next) ==
  /\ mode = "manifest"
  /\ pc = name
  /\ trace' = Append(trace, name)
  /\ \/ /\ StoreInsert(rows)
        /\ pc' = next
        /\ caught' = caught
     \/ /\ caught' = Err(name, 0)
        /\ pc' = "finally"
        /\ UNCHANGED <<uncommitted, committed>>

FileVars == <<fpc, ferr, fret, ins, p3, post>>
TopVars == <<mode, shape, validator, ctx, trace, tx, beginCount, commitCount>>

\* await dbApi.dbBeginTransaction(db): outside the try block.
DbBeginTransaction ==
  /\ mode = "manifest"
  /\ pc = "begin"
  /\ \/ /\ tx' = "open"
        /\ beginCount' = beginCount + 1
        /\ pc' = "readMetadataFile"
        /\ result' = result
     \/ /\ result' = [state |-> "rejected", succeeded |-> FALSE,
                      err |-> Err("dbBeginTransaction", 0)]
        /\ pc' = "done"
        /\ UNCHANGED <<tx, beginCount>>
  /\ UNCHANGED <<mode, shape, validator, ctx, caught, trace, commitCount,
                 uncommitted, committed, FileVars>>
  /\ UNCHANGED AuxVars

ReadMetadataFile ==
  /\ AwaitedStep("readMetadataFile", {}, "recordToplevelPackage")
  /\ UNCHANGED <<mode, shape, validator, ctx, result, tx, beginCount, commitCount, FileVars>>
  /\ UNCHANGED AuxVars

\* zclLoader.recordToplevelPackage: the package row is inserted unless the
\* path and checksum of the metadata file are registered already.
RecordToplevelPackage ==
  /\ AwaitedStep("recordToplevelPackage",
                 IF prior THEN {} ELSE {Row(0, "package")}, "collectData")
  /\ UNCHANGED <<mode, shape, validator, ctx, result, tx, beginCount, commitCount, FileVars>>
  /\ UNCHANGED AuxVars

\* VersionDeclared of a loader that never records the version.
VersionDeclaredNever(c) == FALSE

\* if (ctx.version != null)
VersionDeclared(c) == c.version

\* collectDataFromJsonFile / collectDataFromPropertiesFile fill ctx.
CollectData ==
  /\ AwaitedStep("collectData", {},
                 IF VersionDeclared(manifest) THEN "recordVersion" ELSE "parseZclFiles")
  /\ ctx' = IF pc' = "finally" THEN ctx ELSE manifest
  /\ UNCHANGED <<mode, shape, validator, result, tx, beginCount, commitCount, FileVars>>
  /\ UNCHANGED AuxVars

RecordVersion ==
  /\ AwaitedStep("recordVersion", {Row(0, "version")}, "parseZclFiles")
  /\ UNCHANGED <<mode, shape, validator, ctx, result, tx, beginCount, commitCount, FileVars>>
  /\ UNCHANGED AuxVars

\* parseManufacturerData: insertOptionsKeyValues of the manufacturer codes.
ParseManufacturerData ==
  /\ AwaitedStep("parseManufacturerData", {Row(0, "manufacturerCodes")}, NextStep(2, ctx))
  /\ optRows' = IF pc' = "finally" THEN optRows
                ELSE optRows \cup {r \in OptionRowsOf(ctx) : r.cat = "manufacturerCodes"}
  /\ UNCHANGED <<mode, shape, validator, ctx, result, tx, beginCount, commitCount, FileVars>>
  /\ UNCHANGED <<IdleVars, known, customDev, defRows, optIns, dfl>>

\* CustomDeviceMissing of a loader that inserts without looking.
CustomDeviceUnchecked(existing) == TRUE

\* if (existingCustomDevice == null), on the number of device types that
\* selectDeviceTypeByCodeAndName finds.
CustomDeviceMissing(existing) == existing = 0

\* await processCustomZclDeviceType(db, ctx.packageId): the lookup, and the
\* insert of the custom device type if there is none.
ProcessCustomZclDeviceType ==
  /\ AwaitedStep("processCustomZclDeviceType",
                 IF CustomDeviceMissing(customDev) THEN {Row(0, "customDeviceType")} ELSE {},
                 NextStep(3, ctx))
  /\ customDev' = IF pc' # "finally" /\ CustomDeviceMissing(customDev)
                  THEN customDev + 1 ELSE customDev
  /\ UNCHANGED <<mode, shape, validator, ctx, result, tx, beginCount, commitCount, FileVars>>
  /\ UNCHANGED <<IdleVars, known, PostVars>>

\* The categories of parseOptions and of parseDefaults.
OptionCats(c) == {o.cat : o \in c.textOptions} \cup c.boolOptions
DefaultCats(c) == {d.cat : d \in c.defaultValues}
DefaultOf(c, cat) == CHOOSE d \in c.defaultValues : d.cat = cat

\* await parseOptions(...): parseTextOptions and parseBoolOptions call
\* insertOptionsKeyValues once for every category.
ParseOptions ==
  /\ mode = "manifest"
  /\ pc = "parseOptions"
  /\ trace' = Append(trace, "parseOptions")
  /\ optIns' = [c \in Cats |-> IF c \in OptionCats(ctx) THEN "inflight" ELSE "none"]
  /\ pc' = "awaitOptions"
  /\ UNCHANGED <<mode, shape, validator, ctx, caught, result, tx, beginCount, commitCount,
                 uncommitted, committed, FileVars, IdleVars, known, customDev, optRows, defRows, dfl>>

\* insertOptionsKeyValues of a category settles.
OptionInsertDone(c) ==
  /\ optIns[c] = "inflight"
  /\ \/ /\ optIns' = [optIns EXCEPT ![c] = "ok"]
        /\ optRows' = optRows \cup {r \in OptionRowsOf(ctx) : r.cat = c}
        /\ StoreInsert({Row(0, "options")})
     \/ /\ optIns' = [optIns EXCEPT ![c] = "err"]
        /\ UNCHANGED <<optRows, uncommitted, committed>>
  /\ UNCHANGED <<TopVars, pc, caught, result, FileVars, IdleVars, known, customDev, defRows, dfl>>

\* OptionsInserted of a loader that does not await the inserts.
OptionsNotAwaited(st) == TRUE

\* The Promise.all of parseOptions, which loadSilabsZcl awaits, has
\* resolved: every insertOptionsKeyValues has.
OptionsInserted(st) == \A c \in Cats : st[c] \in {"none", "ok"}

\* parseOptions: return Promise.all(promises)
AwaitOptions ==
  /\ mode = "manifest"
  /\ pc = "awaitOptions"
  /\ \/ /\ \E c \in Cats : optIns[c] = "err"
        /\ caught' = Err("parseOptions", 0)
        /\ pc' = "finally"
     \/ /\ OptionsInserted(optIns)
        /\ caught' = caught
        /\ pc' = NextStep(4, ctx)
  /\ UNCHANGED <<TopVars, result, uncommitted, committed, FileVars, AuxVars>>

\* await parseDefaults(...): parseTextDefaults and parseBoolDefaults call
\* selectSpecificOptionValue once for every category.
ParseDefaults ==
  /\ mode = "manifest"
  /\ pc = "parseDefaults"
  /\ trace' = Append(trace, "parseDefaults")
  /\ dfl' = [c \in Cats |-> IF c \in DefaultCats(ctx) THEN "select" ELSE "none"]
  /\ pc' = "awaitDefaults"
  /\ UNCHANGED <<mode, shape, validator, ctx, caught, result, tx, beginCount, commitCount,
                 uncommitted, committed, FileVars, IdleVars, known, customDev, optRows, defRows, optIns>>

\* The lookups of a category have resolved.
DefaultSelectDone(c) ==
  /\ dfl[c] = "select"
  /\ LET d == DefaultOf(ctx, c)
     IN dfl' = [dfl EXCEPT ![c] = AfterLookup(d, DefaultOption(optRows, d))]
  /\ UNCHANGED <<TopVars, pc, caught, result, uncommitted, committed, FileVars,
                 IdleVars, known, customDev, optRows, defRows, optIns>>

\* insertDefaultOptionValue of a category settles.
DefaultInsertDone(c) ==
  /\ dfl[c] = "insert"
  /\ \/ /\ dfl' = [dfl EXCEPT ![c] = "ok"]
        /\ defRows' = defRows \cup
                        {[cat |-> c, ref |-> DefaultOption(optRows, DefaultOf(ctx, c))]}
        /\ StoreInsert({Row(0, "defaults")})
     \/ /\ dfl' = [dfl EXCEPT ![c] = "err"]
        /\ UNCHANGED <<defRows, uncommitted, committed>>
  /\ UNCHANGED <<TopVars, pc, caught, result, FileVars, IdleVars, known, customDev, optRows, optIns>>

\* parseDefaults: return Promise.all(promises)
AwaitDefaults ==
  /\ mode = "manifest"
  /\ pc = "awaitDefaults"
  /\ \/ /\ \E c \in Cats : dfl[c] \in {"nomatch", "typeError", "err"}
        /\ caught' = Err("parseDefaults", 0)
        /\ pc' = "finally"
     \/ /\ \A c \in Cats : dfl[c] \in {"none", "ok"}
        /\ caught' = caught
        /\ pc' = NextStep(5, ctx)
  /\ UNCHANGED <<TopVars, result, uncommitted, committed, FileVars, AuxVars>>

\* parseZclSchema: qualifyZclFile registers the schema and the validation
\* file unless their path and checksum are registered already.
ParseZclSchema ==
  /\ AwaitedStep("parseZclSchema",
                 IF prior THEN {} ELSE {Row(0, "zclSchema"), Row(0, "zclValidation")},
                 "finally")
  /\ UNCHANGED <<mode, shape, validator, ctx, result, tx, beginCount, commitCount, FileVars>>
  /\ UNCHANGED AuxVars

\* LoadSettle with a catch block that logs the error and does not rethrow it.
LoadSettleSwallow(e) == [state |-> "resolved", succeeded |-> TRUE, err |-> NoErr]

\* catch (err) { throw err } ... return ctx: how the promise of loadSilabsZcl settles.
LoadSettle(e) ==
  IF e = NoErr
  THEN [state |-> "resolved", succeeded |-> TRUE, err |-> NoErr]
  ELSE [state |-> "rejected", succeeded |-> FALSE, err |-> e]

\* FinallyCommits with the commit at the end of the try block instead.
FinallyCommitsOnSuccess(e) == e = NoErr

\* Whether the finally block issues dbCommit, given the error caught.
FinallyCommits(e) == TRUE

\* finally { dbApi.dbCommit(db) }: issued, not awaited; the promise settles.
Finally ==
  /\ mode = "manifest"
  /\ pc = "finally"
  /\ IF FinallyCommits(caught)
     THEN /\ commitCount' = commitCount + 1
          /\ tx' = "commitIssued"
     ELSE UNCHANGED <<commitCount, tx>>
  /\ result' = LoadSettle(caught)
  /\ pc' = "done"
  /\ UNCHANGED <<mode, shape, validator, ctx, caught, trace, beginCount,
                 uncommitted, committed, FileVars>>
  /\ UNCHANGED AuxVars

\* The store completes the commit.
CommitDone ==
  /\ tx = "commitIssued"
  /\ tx' = "committed"
  /\ committed' = committed \cup uncommitted
  /\ uncommitted' = {}
  /\ UNCHANGED <<mode, shape, validator, ctx, pc, caught, result, trace, beginCount,
                 commitCount, FileVars>>
  /\ UNCHANGED AuxVars

(***************************************************************************)
(* processParsedZclData, parseSingleZclFile, parseZclFiles.                *)
(***************************************************************************)
\* promisesStep3 of a file, in the order in which the thunks are pushed.
Step3Of(sh) ==
  (IF "cluster" \in sh THEN <<"globalAttribute">> ELSE <<>>)
  \o (IF "clusterExtension" \in sh THEN <<"clusterExtension">> ELSE <<>>)

\* processParsedZclData up to its first await: every phase-1 and phase-2
\* process function of the file is called, which issues its first insert.
StartInserts(f) ==
  [ins EXCEPT ![f] = [t \in InsertTags |-> IF t \in shape[f] THEN "inflight" ELSE "none"]]

\* UnparsedTasks without the test of 'result' in argument: the file is
\* processed as if it had been parsed.
UnparsedTasksAsParsed(sh) == Step3Of(sh)

\* processParsedZclData: if (!('result' in argument)) return []
UnparsedTasks(sh) == <<>>

\* FileCatch with a catch block that rethrows: the promise of the file rejects.
FileCatchRethrow(e) == [state |-> "rejected", tasks |-> <<>>, err |-> e]

\* catch (err) { env.logError(...) } of parseSingleZclFile: the promise of
\* the file resolves with undefined.
FileCatch(e) == [state |-> "undefined", tasks |-> <<>>, err |-> NoErr]

\* IndividualSettle with a catch block that rethrows.
IndividualSettleRethrow(e) ==
  IF e = NoErr
  THEN [state |-> "resolved", succeeded |-> TRUE, err |-> NoErr]
  ELSE [state |-> "rejected", succeeded |-> FALSE, err |-> e]

\* try { ... } catch (err) { return { succeeded: false, err: err } } and
\* return { succeeded: true, packageId: pkgId } of loadIndividualSilabsFile.
IndividualSettle(e) ==
  IF e = NoErr
  THEN [state |-> "resolved", succeeded |-> TRUE, err |-> NoErr]
  ELSE [state |-> "resolved", succeeded |-> FALSE, err |-> e]

\* An error thrown inside the try block of the per-file function.
FileFail(f, e) ==
  /\ fpc' = [fpc EXCEPT ![f] = "done"]
  /\ IF mode = "manifest"
     THEN /\ ferr' = [ferr EXCEPT ![f] = e]
          /\ fret' = [fret EXCEPT ![f] = FileCatch(e)]
          /\ UNCHANGED <<pc, result>>
     ELSE /\ result' = IndividualSettle(e)
          /\ pc' = "done"
          /\ UNCHANGED <<ferr, fret>>

\* processParsedZclData returns the phase-3 thunks of the file.
FileReturn(f, tasks) ==
  /\ fpc' = [fpc EXCEPT ![f] = "done"]
  /\ fret' = [fret EXCEPT ![f] = [state |-> "tasks", tasks |-> tasks, err |-> NoErr]]
  /\ pc' = IF mode = "manifest" THEN pc ELSE "iStep3"
  /\ UNCHANGED <<ferr, result>>

\* await parseZclFiles(...): zclFiles.map((file) => parseSingleZclFile(...)).
ParseZclFilesStart ==
  /\ mode = "manifest"
  /\ pc = "parseZclFiles"
  /\ trace' = Append(trace, "parseZclFiles")
  /\ fpc' = [f \in Files |-> "read"]
  /\ pc' = "barrier"
  /\ UNCHANGED <<mode, shape, validator, ctx, caught, result, tx, beginCount, commitCount,
                 uncommitted, committed, ferr, fret, ins, p3, post>>
  /\ UNCHANGED AuxVars

\* parseSingleZclFile: await fsp.readFile(file).
FileReadFile(f) ==
  /\ mode = "manifest"
  /\ fpc[f] = "read"
  /\ \/ /\ fpc' = [fpc EXCEPT ![f] = "qualify"]
        /\ UNCHANGED <<ferr, fret, pc, result>>
     \/ FileFail(f, Err("readFile", f))
  /\ UNCHANGED <<TopVars, caught, uncommitted, committed, ins, p3, post>>
  /\ UNCHANGED AuxVars

\* parseSingleZclFile: await zclLoader.qualifyZclFile(...); without
\* result.data, processParsedZclData returns [] at once.
FileQualify(f) ==
  /\ mode = "manifest"
  /\ fpc[f] = "qualify"
  /\ \/ /\ ~prior
        /\ known' = [known EXCEPT ![f] = "new"]
        /\ fpc' = [fpc EXCEPT ![f] = "parse"]
        /\ UNCHANGED <<ferr, fret, pc, result>>
     \/ /\ known' = [known EXCEPT ![f] = "registered"]
        /\ FileReturn(f, UnparsedTasks(shape[f]))
     \/ /\ known' = known
        /\ FileFail(f, Err("qualifyZclFile", f))
  /\ UNCHANGED <<TopVars, caught, uncommitted, committed, ins, p3, post>>
  /\ UNCHANGED <<IdleVars, customDev, PostVars>>

\* parseSingleZclFile: await util.parseXml(fileContent), then the call of
\* processParsedZclData.
FileParseXml(f) ==
  /\ mode = "manifest"
  /\ fpc[f] = "parse"
  /\ \/ /\ fpc' = [fpc EXCEPT ![f] = "await1"]
        /\ ins' = StartInserts(f)
        /\ UNCHANGED <<ferr, fret, pc, result>>
     \/ /\ FileFail(f, Err("parseXml", f))
        /\ ins' = ins
  /\ UNCHANGED <<TopVars, caught, uncommitted, committed, p3, post>>
  /\ UNCHANGED AuxVars

\* A phase-1 or phase-2 insert of the store settles.  processDomains issues
\* insertDomains once insertSpecs has resolved.
InsertDone(f, t) ==
  /\ ins[f][t] \in {"inflight", "inflight2"}
  /\ \/ /\ t = "domain" /\ ins[f][t] = "inflight"
        /\ ins' = [ins EXCEPT ![f][t] = "inflight2"]
        /\ StoreInsert({Row(f, "spec")})
     \/ /\ ~(t = "domain" /\ ins[f][t] = "inflight")
        /\ ins' = [ins EXCEPT ![f][t] = "ok"]
        /\ StoreInsert({Row(f, t)})
     \/ /\ ins' = [ins EXCEPT ![f][t] = "err"]
        /\ UNCHANGED <<uncommitted, committed>>
  /\ customDev' = IF t = "deviceType" /\ f = customFile /\ ins'[f][t] = "ok"
                  THEN customDev + 1 ELSE customDev
  /\ UNCHANGED <<TopVars, pc, caught, result, fpc, ferr, fret, p3, post>>
  /\ UNCHANGED <<IdleVars, known, PostVars>>

\* await Promise.all(promisesStep1)
AwaitStep1(f) ==
  /\ fpc[f] = "await1"
  /\ \/ /\ \E t \in Step1Tags : ins[f][t] = "err"
        /\ FileFail(f, Err("insert", f))
     \/ /\ \A t \in Step1Tags : ins[f][t] \in {"none", "ok"}
        /\ fpc' = [fpc EXCEPT ![f] = "await2"]
        /\ UNCHANGED <<ferr, fret, pc, result>>
  /\ UNCHANGED <<TopVars, caught, uncommitted, committed, ins, p3, post>>
  /\ UNCHANGED AuxVars

\* await Promise.all(promisesStep2); return Promise.all(promisesStep3)
AwaitStep2(f) ==
  /\ fpc[f] = "await2"
  /\ \/ /\ \E t \in Step2Tags : ins[f][t] = "err"
        /\ FileFail(f, Err("insert", f))
     \/ /\ \A t \in Step2Tags : ins[f][t] \in {"none", "ok"}
        /\ FileReturn(f, Step3Of(shape[f]))
  /\ UNCHANGED <<TopVars, caught, uncommitted, committed, ins, p3, post>>
  /\ UNCHANGED AuxVars

\* Flat2 that drops the undefined entries.
RECURSIVE Flat2SkipUndefined(_, _)
Flat2SkipUndefined(fr, f) ==
  IF f > NumFiles THEN <<>>
  ELSE [i \in 1..Len(fr[f].tasks) |-> [file |-> f, task |-> fr[f].tasks[i]]]
       \o Flat2SkipUndefined(fr, f + 1)

\* (await Promise.all(individualFilePromise)).flat(2): the values the files
\* resolved with, flattened in manifest order.
RECURSIVE Flat2(_, _)
Flat2(fr, f) ==
  IF f > NumFiles THEN <<>>
  ELSE (IF fr[f].state = "undefined"
        THEN <<[file |-> f, task |-> "undefined"]>>
        ELSE [i \in 1..Len(fr[f].tasks) |-> [file |-> f, task |-> fr[f].tasks[i]]])
       \o Flat2(fr, f + 1)

\* Position of the first entry that is not a function (Len + 1: none).
FirstUndefined(items) ==
  IF \E i \in 1..Len(items) : items[i].task = "undefined"
  THEN CHOOSE i \in 1..Len(items) :
         /\ items[i].task = "undefined"
         /\ \A j \in 1..(i - 1) : items[j].task # "undefined"
  ELSE Len(items) + 1

\* laterPromises.map((promise) => promise()) over the first n entries.
StartStep3(items, n) ==
  [f \in Files |-> [t \in Step3Tasks |->
     IF \E i \in 1..n : items[i] = [file |-> f, task |-> t]
     THEN "inflight" ELSE p3[f][t]]]

\* parseZclFiles: the join of the file promises and the start of phase 3.
Barrier ==
  /\ mode = "manifest"
  /\ pc = "barrier"
  /\ \/ /\ \E f \in Files : fret[f].state = "rejected"
        /\ \E f \in Files :
             /\ fret[f].state = "rejected"
             /\ caught' = fret[f].err
        /\ pc' = "finally"
        /\ p3' = p3
     \/ /\ \A f \in Files : fret[f].state \in {"tasks", "undefined"}
        /\ LET items == Flat2(fret, 1)
               k == FirstUndefined(items)
           IN /\ p3' = StartStep3(items, k - 1)
              /\ IF k <= Len(items)
                 THEN /\ caught' = TypeErr
                      /\ pc' = "finally"
                 ELSE /\ caught' = caught
                      /\ pc' = "awaitStep3"
  /\ UNCHANGED <<TopVars, result, uncommitted, committed, fpc, ferr, fret, ins, post>>
  /\ UNCHANGED AuxVars

\* A phase-3 task settles; processClusterGlobalAttributes inserts nothing
\* when no cluster of the file has a globalAttribute.
Step3Done(f, t) ==
  /\ p3[f][t] = "inflight"
  /\ \/ /\ p3' = [p3 EXCEPT ![f][t] = "ok"]
        /\ StoreInsert({Row(f, t)})
     \/ /\ t = "globalAttribute"
        /\ p3' = [p3 EXCEPT ![f][t] = "ok"]
        /\ UNCHANGED <<uncommitted, committed>>
     \/ /\ p3' = [p3 EXCEPT ![f][t] = "err"]
        /\ UNCHANGED <<uncommitted, committed>>
  /\ UNCHANGED <<TopVars, pc, caught, result, fpc, ferr, fret, ins, post>>
  /\ UNCHANGED AuxVars

Step3Failed == \E f \in Files, t \in Step3Tasks : p3[f][t] = "err"

\* Step3AllDone of a loader that does not await the phase-3 tasks.
Step3AllDoneUnawaited == TRUE

\* The Promise.all of the phase-3 tasks has resolved: every task has.
Step3AllDone == \A f \in Files, t \in Step3Tasks : p3[f][t] \in {"none", "ok"}

\* parseZclFiles: await Promise.all(laterPromises.map(...))
AwaitStep3 ==
  /\ mode = "manifest"
  /\ pc = "awaitStep3"
  /\ \/ /\ Step3Failed
        /\ caught' = Err("step3", 0)
        /\ pc' = "finally"
     \/ /\ Step3AllDone
        /\ caught' = caught
        /\ pc' = "postLoading"
  /\ UNCHANGED <<TopVars, result, uncommitted, committed, FileVars>>
  /\ UNCHANGED AuxVars

\* parseZclFiles: return zclLoader.processZclPostLoading(db)
PostLoading ==
  /\ mode = "manifest"
  /\ pc = "postLoading"
  /\ post' = post + 1
  /\ \/ /\ pc' = NextStep(1, ctx)
        /\ caught' = caught
     \/ /\ caught' = Err("processZclPostLoading", 0)
        /\ pc' = "finally"
  /\ UNCHANGED <<TopVars, result, uncommitted, committed, fpc, ferr, fret, ins, p3>>
  /\ UNCHANGED AuxVars

(***************************************************************************)
(* loadIndividualSilabsFile: the standalone load of file 1.                *)
(***************************************************************************)
\* ValidationFailed of a loader that does not test the validation result.
ValidationNotTested(v) == FALSE

\* if (result.validation && result.validation.isValid == false) throw ...
ValidationFailed(v) == v = "invalid"

\* await fsp.readFile(filePath)
IndReadFile ==
  /\ mode = "individual"
  /\ fpc[1] = "read"
  /\ \/ /\ fpc' = [fpc EXCEPT ![1] = "qualify"]
        /\ UNCHANGED <<ferr, fret, pc, result>>
     \/ FileFail(1, Err("readFile", 1))
  /\ UNCHANGED <<TopVars, caught, uncommitted, committed, ins, p3, post>>
  /\ UNCHANGED AuxVars

\* await zclLoader.qualifyZclFile(...), then boundValidator(fileContent);
\* without result.data the validation result is tested at once and
\* processParsedZclData returns [].
IndQualify ==
  /\ mode = "individual"
  /\ fpc[1] = "qualify"
  /\ \/ /\ UNCHANGED <<uncommitted, committed>>
        /\ \E k \in {"new", "registered"} :
             /\ known' = [known EXCEPT ![1] = k]
             /\ IF validator = "throws"
                THEN FileFail(1, Err("validator", 1))
                ELSE IF k = "new"
                THEN /\ fpc' = [fpc EXCEPT ![1] = "parse"]
                     /\ UNCHANGED <<ferr, fret, pc, result>>
                ELSE IF ValidationFailed(validator)
                THEN FileFail(1, Err("Validation Failed", 1))
                ELSE FileReturn(1, UnparsedTasks(shape[1]))
     \/ /\ FileFail(1, Err("qualifyZclFile", 1))
        /\ UNCHANGED <<uncommitted, committed, known>>
  /\ UNCHANGED <<TopVars, caught, ins, p3, post>>
  /\ UNCHANGED <<IdleVars, customDev, PostVars>>

\* await util.parseXml(result.data), the test of result.validation, and the
\* call of processParsedZclData.
IndParseXml ==
  /\ mode = "individual"
  /\ fpc[1] = "parse"
  /\ \/ IF ValidationFailed(validator)
        THEN /\ FileFail(1, Err("Validation Failed", 1))
             /\ ins' = ins
        ELSE /\ fpc' = [fpc EXCEPT ![1] = "await1"]
             /\ ins' = StartInserts(1)
             /\ UNCHANGED <<ferr, fret, pc, result>>
     \/ /\ FileFail(1, Err("parseXml", 1))
        /\ ins' = ins
  /\ UNCHANGED <<TopVars, caught, uncommitted, committed, p3, post>>
  /\ UNCHANGED AuxVars

\* laterPromises.flat(1).map((promise) => promise())
IndStartStep3 ==
  /\ mode = "individual"
  /\ pc = "iStep3"
  /\ LET items == [i \in 1..Len(fret[1].tasks) |-> [file |-> 1, task |-> fret[1].tasks[i]]]
     IN p3' = StartStep3(items, Len(items))
  /\ pc' = "iAwaitStep3"
  /\ UNCHANGED <<TopVars, caught, result, uncommitted, committed, fpc, ferr, fret, ins, post>>
  /\ UNCHANGED AuxVars

\* await Promise.all(...) of the phase-3 tasks
IndAwaitStep3 ==
  /\ mode = "individual"
  /\ pc = "iAwaitStep3"
  /\ \/ /\ Step3Failed
        /\ result' = IndividualSettle(Err("step3", 1))
        /\ pc' = "done"
     \/ /\ Step3AllDone
        /\ result' = result
        /\ pc' = "iPostLoading"
  /\ UNCHANGED <<TopVars, caught, uncommitted, committed, FileVars>>
  /\ UNCHANGED AuxVars

\* await zclLoader.processZclPostLoading(db); return { succeeded: true, ... }
IndPostLoading ==
  /\ mode = "individual"
  /\ pc = "iPostLoading"
  /\ post' = post + 1
  /\ \/ result' = IndividualSettle(NoErr)
     \/ result' = IndividualSettle(Err("processZclPostLoading", 1))
  /\ pc' = "done"
  /\ UNCHANGED <<TopVars, caught, uncommitted, committed, fpc, ferr, fret, ins, p3>>
  /\ UNCHANGED AuxVars

(***************************************************************************)
(* httpPostAddNewPackage: the handler of the add-package request, which    *)
(* calls zclLoader.loadIndividualFile and waits for the load of file 1.    *)
(***************************************************************************)
HandlerVars ==
  <<mode, shape, validator, ctx, pc, caught, result, trace, tx, beginCount,
    commitCount, uncommitted, committed, FileVars, InputVars, known, customDev,
    PostVars, SideVars, PrepVars>>

\* DataErr of a handler that links whatever the load reports.
DataErrIgnored(data) == FALSE

\* if (data.err)
DataErr(data) == data.err # NoErr

\* .then((data) => ...): the load has settled.  With data.err the status is
\* { isValid: false, err: data.err.message } and the next then answers 200;
\* else insertSessionPackage is called; a rejected load goes to the catch.
HttpPostAddNewPackage ==
  /\ mode = "individual"
  /\ pc = "done"
  /\ rest.at = "load"
  /\ rest' = IF result.state = "rejected" THEN Request("sent", 400, FALSE, "", TRUE)
             ELSE IF DataErr(result) THEN Request("sent", 200, FALSE, result.err.kind, FALSE)
             ELSE Request("linking", 0, FALSE, "", FALSE)
  /\ UNCHANGED <<HandlerVars, links>>

\* insertSessionPackage settles: .then(() => { isValid: true, sessionId })
\* and the answer 200, or the catch and the answer 400.
InsertSessionPackageDone ==
  /\ rest.at = "linking"
  /\ \/ /\ links' = links + 1
        /\ rest' = Request("sent", 200, TRUE, "", FALSE)
     \/ /\ links' = links
        /\ rest' = Request("sent", 400, FALSE, "", TRUE)
  /\ UNCHANGED HandlerVars

Next ==
  \/ DbBeginTransaction
  \/ ReadMetadataFile
  \/ RecordToplevelPackage
  \/ CollectData
  \/ RecordVersion
  \/ ParseZclFilesStart
  \/ \E f \in Files : FileReadFile(f)
  \/ \E f \in Files : FileQualify(f)
  \/ \E f \in Files : FileParseXml(f)
  \/ \E f \in Files, t \in InsertTags : InsertDone(f, t)
  \/ \E f \in Files : AwaitStep1(f)
  \/ \E f \in Files : AwaitStep2(f)
  \/ Barrier
  \/ \E f \in Files, t \in Step3Tasks : Step3Done(f, t)
  \/ AwaitStep3
  \/ PostLoading
  \/ ParseManufacturerData
  \/ ProcessCustomZclDeviceType
  \/ ParseOptions
  \/ \E c \in Cats : OptionInsertDone(c)
  \/ AwaitOptions
  \/ ParseDefaults
  \/ \E c \in Cats : DefaultSelectDone(c)
  \/ \E c \in Cats : DefaultInsertDone(c)
  \/ AwaitDefaults
  \/ ParseZclSchema
  \/ Finally
  \/ CommitDone
  \/ IndReadFile
  \/ IndQualify
  \/ IndParseXml
  \/ IndStartStep3
  \/ IndAwaitStep3
  \/ IndPostLoading
  \/ HttpPostAddNewPackage
  \/ InsertSessionPackageDone

Spec == Init /\ [][Next]_vars

(***************************************************************************)
(* The prepare functions: from a parsed xml element to the object that is  *)
(* handed to the store.  An attribute value of an element is a text, a     *)
(* sequence of characters; the records keep the fields that the properties *)
(* below read.  With them, the collection of the list of xml files from    *)
(* the manifest, which like them reads and writes no state of the load.    *)
(***************************************************************************)
\* Longest child list of an element the prepare functions are run on.
MaxItems == 3

\* ForEachIndex that counts from one.
ForEachIndexFromOne(i) == i

\* The index that forEach passes to its callback for the i-th element.
ForEachIndex(i) == i - 1

\* prepareStruct: ret.items exists if 'item' in struct.
prepareStruct(struct) ==
  [name |-> struct.name,
   hasItems |-> struct.item # <<>>,
   items |-> [i \in 1..Len(struct.item) |->
                [name |-> struct.item[i].name, ordinal |-> ForEachIndex(i)]]]

\* prepareEnum
prepareEnum(en) ==
  [name |-> en.name,
   hasItems |-> en.item # <<>>,
   items |-> [i \in 1..Len(en.item) |->
                [name |-> en.item[i].name,
                 value |-> parseInt(en.item[i].value, 0),
                 ordinal |-> ForEachIndex(i)]]]

\* bin.bitCount(n): the number of bits set in the integer n; NaN converts
\* to 0.  The masks of the model are below 2^31.
bitCount(n) ==
  IF n = JsNaN THEN 0 ELSE Cardinality({k \in 0..30 : (n \div (2 ^ k)) % 2 = 1})

\* maskToType of a loader that derives the type from the width of the mask,
\* the position of its highest bit, instead of the number of its bits.
maskToTypeByWidth(mask) ==
  LET n == parseInt(mask, 0)
      width == IF n = JsNaN THEN 0 ELSE Cardinality({k \in 0..30 : 2 ^ k <= n})
  IN IF width <= 1 THEN "bool"
     ELSE IF width <= 8 THEN "enum8"
     ELSE IF width <= 16 THEN "enum16"
     ELSE "enum32"

\* maskToType
maskToType(mask) ==
  LET n == parseInt(mask, 0)
  IN IF bitCount(n) <= 1 THEN "bool"
     ELSE IF bitCount(n) <= 8 THEN "enum8"
     ELSE IF bitCount(n) <= 16 THEN "enum16"
     ELSE "enum32"

\* prepareBitmap
prepareBitmap(bm) ==
  [name |-> bm.name,
   hasFields |-> bm.field # <<>>,
   fields |-> [i \in 1..Len(bm.field) |->
                 [name |-> bm.field[i].name,
                  mask |-> parseInt(bm.field[i].mask, 0),
                  type |-> maskToType(bm.field[i].mask),
                  ordinal |-> ForEachIndex(i)]]]

\* ArgIncluded of a prepareCluster that keeps every argument.
ArgIncludedAlways(arg) == TRUE

\* if (arg.$.removedIn == null) cmd.args.push(...)
ArgIncluded(arg) == arg.removedIn = Undefined

\* AttributeIncluded of a prepareCluster that keeps every attribute.
AttributeIncludedAlways(att) == TRUE

\* if (att.removedIn == null) ret.attributes.push(att)
AttributeIncluded(att) == att.removedIn = Undefined

\* PrepareArgs of a prepareCluster that numbers the arguments it keeps.
PrepareArgsRenumbered(args, i) ==
  LET kept == SelectSeq(SubSeq(args, i, Len(args)), ArgIncluded)
  IN [j \in 1..Len(kept) |->
        [name |-> kept[j].name, ordinal |-> ForEachIndex(j),
         removedIn |-> kept[j].removedIn]]

\* command.arg.forEach((arg, index) => ...): the arguments from position i on.
RECURSIVE PrepareArgs(_, _)
PrepareArgs(args, i) ==
  IF i > Len(args) THEN <<>>
  ELSE (IF ArgIncluded(args[i])
        THEN <<[name |-> args[i].name, ordinal |-> ForEachIndex(i),
                removedIn |-> args[i].removedIn]>>
        ELSE <<>>)
       \o PrepareArgs(args, i + 1)

\* ManufacturerCodeOf without the inheritance: the own code is parsed always.
ManufacturerCodeOwn(own, clusterCode) == parseInt(own, 0)

\* if (cmd.manufacturerCode == null) cmd.manufacturerCode = ret.manufacturerCode
\* else cmd.manufacturerCode = parseInt(cmd.manufacturerCode); the same for att.
ManufacturerCodeOf(own, clusterCode) ==
  IF own = Undefined THEN clusterCode ELSE parseInt(own, 0)

\* cluster.attribute.forEach((attribute) => ...): the attributes from position i on.
RECURSIVE PrepareAttributes(_, _, _)
PrepareAttributes(atts, i, clusterCode) ==
  IF i > Len(atts) THEN <<>>
  ELSE (IF AttributeIncluded(atts[i])
        THEN <<[name |-> atts[i].name,
                manufacturerCode |-> ManufacturerCodeOf(atts[i].manufacturerCode, clusterCode),
                removedIn |-> atts[i].removedIn]>>
        ELSE <<>>)
       \o PrepareAttributes(atts, i + 1, clusterCode)

\* prepareCluster.  The field code of the element stands for cluster.code[0]
\* of a cluster and for cluster.$.code of an extension; hasDollar: '$' in cluster.
prepareCluster(cluster, isExtension) ==
  LET code == IF isExtension
              THEN (IF cluster.hasDollar /\ cluster.code # Undefined
                    THEN parseInt(cluster.code, 0) ELSE JsUndefined)
              ELSE parseInt(cluster.code, 0)
      mfg == IF isExtension \/ ~cluster.hasDollar THEN JsUndefined
             ELSE IF cluster.manufacturerCode = Undefined THEN JsNull
             ELSE parseInt(cluster.manufacturerCode, 0)
  IN [isExtension |-> isExtension,
      code |-> code,
      manufacturerCode |-> mfg,
      commands |-> [i \in 1..Len(cluster.command) |->
                      [name |-> cluster.command[i].name,
                       manufacturerCode |->
                         ManufacturerCodeOf(cluster.command[i].manufacturerCode, mfg),
                       args |-> PrepareArgs(cluster.command[i].arg, 1)]],
      attributes |-> PrepareAttributes(cluster.attribute, 1, mfg)]

\* SidesOf without the expansion of "either".
SidesOfUnexpanded(side) == <<side>>

\* if (ga.$.side == dbEnum.side.either) two rows are pushed, client and
\* server, else one row with the side of the entry.
SidesOf(side) == IF side = "either" THEN <<"client", "server">> ELSE <<side>>

\* cluster.globalAttribute.forEach((ga) => ...): the entries from position i on.
RECURSIVE PrepareGlobalAttributes(_, _)
PrepareGlobalAttributes(gas, i) ==
  IF i > Len(gas) THEN <<>>
  ELSE [k \in 1..Len(SidesOf(gas[i].side)) |->
          [code |-> parseInt(gas[i].code, 0),
           side |-> SidesOf(gas[i].side)[k],
           value |-> gas[i].value]]
       \o PrepareGlobalAttributes(gas, i + 1)

\* prepareClusterGlobalAttribute: null unless 'globalAttribute' in cluster.
prepareClusterGlobalAttribute(cluster) ==
  IF cluster.globalAttribute = <<>>
  THEN [null |-> TRUE, code |-> JsUndefined, manufacturerCode |-> Undefined,
        globalAttribute |-> <<>>]
  ELSE [null |-> FALSE,
        code |-> parseInt(cluster.code, 16),
        manufacturerCode |-> IF cluster.hasDollar THEN cluster.manufacturerCode
                             ELSE Undefined,
        globalAttribute |-> PrepareGlobalAttributes(cluster.globalAttribute, 1)]

\* path.join(path.dirname(ctx.metadataFile), p): the directory of the
\* metadata file, then the root p.
FileLocation(p) == <<"dir", p>>

\* util.locateRelativeFilePath(rootFileLocations, relativeFile): the file
\* under the first of the locations, from the left, under which it exists,
\* and null (the empty path) if there is none.
locateRelativeFilePath(rootFileLocations, relativeFile, existing) ==
  LET hits == {i \in 1..Len(rootFileLocations) :
                 rootFileLocations[i] \o <<relativeFile>> \in existing}
  IN IF hits = {} THEN <<>>
     ELSE rootFileLocations[CHOOSE i \in hits : \A k \in hits : i <= k] \o <<relativeFile>>

\* Located of a loader that pushes whatever the lookup returns.
LocatedOrNot(f) == TRUE

\* if (f != null) zclFiles.push(f)
Located(f) == f # <<>>

\* obj.xmlFile.forEach((xmlF) => ...) of collectDataFromJsonFile, and the
\* same loop of collectDataFromPropertiesFile: ctx.zclFiles, from the
\* entries of xmlFile from position i on.
RECURSIVE ZclFilesOf(_, _, _, _)
ZclFilesOf(xmlRoot, xmlFile, existing, i) ==
  IF i > Len(xmlFile) THEN <<>>
  ELSE LET fileLocations == [k \in 1..Len(xmlRoot) |-> FileLocation(xmlRoot[k])]
           f == locateRelativeFilePath(fileLocations, xmlFile[i], existing)
       IN (IF Located(f) THEN <<f>> ELSE <<>>)
          \o ZclFilesOf(xmlRoot, xmlFile, existing, i + 1)

\* The calls the prepare functions are run on: the elements have child
\* lists of length at most MaxItems; a cluster has commands or attributes,
\* with and without attributes on the cluster element (hasDollar); a
\* cluster extension element carries the code of the cluster it extends
\* and no manufacturer code.  The manifests that the file list is collected
\* from name one or two roots and the files a, b and c, each of which exists
\* under any of the roots or under none.
PrepareCalls ==
  LET SeqsUpTo(S) == UNION {[1..k -> S] : k \in 0..MaxItems}
      Names == {"a", "b"}
      NumTexts == {<<"1", "0">>, <<"0", "x", "1", "0">>}
      OptTexts == {Undefined, <<"0", "x", "1", "0">>}
      MaskTexts == {<<"0">>, <<"0", "x", "1", "0">>, <<"1", "0">>, <<"0", "x", "f", "f">>,
                    <<"5", "1", "1">>, <<"0", "x", "F", "F", "F", "F">>,
                    <<"0", "x", "1", "f", "f", "f", "f">>, <<"x">>}
      Call(fn, args, exts) == {[fn |-> fn, arg |-> x, isExtension |-> e] : x \in args, e \in exts}
      ArgClusters ==
        [hasDollar : {TRUE}, code : {<<"1", "0">>}, manufacturerCode : {Undefined},
         command : {<<[name |-> "c", manufacturerCode |-> Undefined, arg |-> a]>> :
                      a \in SeqsUpTo([name : Names, removedIn : OptTexts])},
         attribute : {<<>>}, globalAttribute : {<<>>}]
      MfgClusters ==
        {c \in [hasDollar : BOOLEAN, code : NumTexts, manufacturerCode : OptTexts,
                command : SeqsUpTo([name : {"c"}, manufacturerCode : OptTexts, arg : {<<>>}]),
                attribute : SeqsUpTo([name : {"t"}, manufacturerCode : OptTexts,
                                      removedIn : OptTexts]),
                globalAttribute : {<<>>}] :
           /\ c.command = <<>> \/ c.attribute = <<>>
           /\ ~c.hasDollar => c.manufacturerCode = Undefined}
      AttClusters ==
        [hasDollar : {TRUE}, code : {<<"1", "0">>}, manufacturerCode : {Undefined},
         command : {<<>>},
         attribute : SeqsUpTo([name : Names, manufacturerCode : {Undefined},
                               removedIn : OptTexts]),
         globalAttribute : {<<>>}]
      GaClusters ==
        {c \in [hasDollar : BOOLEAN, code : NumTexts, manufacturerCode : OptTexts,
                command : {<<>>}, attribute : {<<>>},
                globalAttribute :
                  SeqsUpTo([code : {<<"0", "x", "1", "0">>},
                            side : {"either", "client", "server"}, value : {"v"}])] :
           ~c.hasDollar => c.manufacturerCode = Undefined}
  IN Call("prepareStruct", [name : {"s"}, item : SeqsUpTo([name : Names])], {FALSE})
     \cup Call("prepareEnum",
               [name : {"e"}, item : SeqsUpTo([name : Names, value : NumTexts])], {FALSE})
     \cup Call("prepareBitmap",
               [name : {"m"}, field : SeqsUpTo([name : {"a"}, mask : MaskTexts])], {FALSE})
     \cup {c \in Call("prepareCluster", ArgClusters \cup MfgClusters \cup AttClusters, BOOLEAN) :
             c.isExtension => c.arg.manufacturerCode = Undefined}
     \cup Call("prepareClusterGlobalAttribute", GaClusters, {FALSE})
     \cup Call("collectDataFromJsonFile",
               [xmlRoot : {<<"r">>, <<"r", "s">>, <<"s", "r">>},
                xmlFile : SeqsUpTo({"a", "b", "c"}),
                existing : SUBSET {FileLocation(p) \o <<x>> :
                                     p \in {"r", "s"}, x \in {"a", "b", "c"}}],
               {FALSE})

LoaderVars ==
  <<mode, shape, validator, ctx, pc, caught, result, trace, tx, beginCount,
    commitCount, uncommitted, committed, fpc, ferr, fret, ins, p3, post,
    prior, manifest, customFile, known, customDev, optRows, defRows, optIns, dfl,
    rest, links>>

\* No load is in progress.
NoLoad ==
  /\ mode = "none"
  /\ shape = [f \in Files |-> {}]
  /\ validator = "none"
  /\ ctx = NoManifest
  /\ pc = "idle"
  /\ caught = NoErr
  /\ result = Pending
  /\ trace = <<>>
  /\ tx = "none"
  /\ beginCount = 0
  /\ commitCount = 0
  /\ uncommitted = {}
  /\ committed = {}
  /\ fpc = [f \in Files |-> "idle"]
  /\ ferr = [f \in Files |-> NoErr]
  /\ fret = [f \in Files |-> [state |-> "pending", tasks |-> <<>>, err |-> NoErr]]
  /\ ins = [f \in Files |-> [t \in InsertTags |-> "none"]]
  /\ p3 = [f \in Files |-> [t \in Step3Tasks |-> "none"]]
  /\ post = 0
  /\ prior = FALSE
  /\ manifest = NoManifest
  /\ customFile = 0
  /\ known = [f \in Files |-> "pending"]
  /\ customDev = 0
  /\ optRows = {}
  /\ defRows = {}
  /\ optIns = [c \in Cats |-> "none"]
  /\ dfl = [c \in Cats |-> "none"]
  /\ rest = Request("none", 0, FALSE, "", FALSE)
  /\ links = 0

PrepareInit ==
  /\ NoLoad
  /\ NoUtil
  /\ NoServer
  /\ NoCluster
  /\ pin \in PrepareCalls
  /\ pout = NoResult

\* The call pin returns.
Return(fn, value) ==
  /\ pin.fn = fn
  /\ ~pout.done
  /\ pout' = [done |-> TRUE, value |-> value]
  /\ UNCHANGED <<pin, LoaderVars, SideVars>>

PrepareStructCall == Return("prepareStruct", prepareStruct(pin.arg))
PrepareEnumCall == Return("prepareEnum", prepareEnum(pin.arg))
PrepareBitmapCall == Return("prepareBitmap", prepareBitmap(pin.arg))
PrepareClusterCall == Return("prepareCluster", prepareCluster(pin.arg, pin.isExtension))
PrepareClusterGlobalAttributeCall ==
  Return("prepareClusterGlobalAttribute", prepareClusterGlobalAttribute(pin.arg))

PrepareNext ==
  \/ PrepareStructCall
  \/ PrepareEnumCall
  \/ PrepareBitmapCall
  \/ PrepareClusterCall
  \/ PrepareClusterGlobalAttributeCall
  \/ Return("collectDataFromJsonFile",
            [zclFiles |-> ZclFilesOf(pin.arg.xmlRoot, pin.arg.xmlFile, pin.arg.existing, 1)])

PrepareSpec == PrepareInit /\ [][PrepareNext]_vars

(***************************************************************************)
(* The helper library of the generator (helper-c.js, helper-zcl.js), whose  *)
(* functions the templates call.  A call of a helper is drawn from          *)
(* HelperCalls, and the helper returns its value.                           *)
(***************************************************************************)
\* The largest number that a value text of a helper call writes.
MaxValue == 300

\* The value null where a text is expected, and where a type name is.
Null == <<"null">>
NullType == "null"

\* The code of character c.
CharCode(c) ==
  IF DigitVal(c) < 10 THEN 48 + DigitVal(c)
  ELSE IF DigitVal(c) < 16
  THEN (IF \E i \in 11..16 : HexDigits[i] = c THEN 87 ELSE 55) + DigitVal(c)
  ELSE CASE c = "g" -> 103
         [] c = "G" -> 71
         [] c = "x" -> 120
         [] OTHER -> 63

\* One byte as 0x and two hexadecimal digits.
HexByte(b) == <<"0", "x", HexUpper[(b \div 16) + 1], HexUpper[(b % 16) + 1]>>

\* BytesOf of a formatter that writes the least significant byte first.
RECURSIVE BytesOfLsbFirst(_, _)
BytesOfLsbFirst(val, w) ==
  IF w = 0 THEN <<>> ELSE <<val % 256>> \o BytesOfLsbFirst(val \div 256, w - 1)

\* The w bytes of the number val, most significant first.
RECURSIVE BytesOf(_, _)
BytesOf(val, w) ==
  IF w = 0 THEN <<>> ELSE BytesOf(val \div 256, w - 1) \o <<val % 256>>

\* The bytes written as a list: 0x.., 0x.., ...
RECURSIVE JoinBytes(_)
JoinBytes(bs) ==
  IF bs = <<>> THEN <<>>
  ELSE IF Len(bs) = 1 THEN HexByte(bs[1])
  ELSE HexByte(bs[1]) \o <<",", " ">> \o JoinBytes(Tail(bs))

\* The quoted literal with its length in front: 1,'g'
RECURSIVE QuotedChars(_)
QuotedChars(s) ==
  IF s = <<>> THEN <<>> ELSE <<",", "'", Head(s), "'">> \o QuotedChars(Tail(s))
QuotedLiteral(s) == toString(Len(s), 10) \o QuotedChars(s)

\* formatValue(value, length): the value as a list of length bytes, or as
\* a quoted literal when the length is not positive.
formatValue(value, length) ==
  IF length <= 0 THEN QuotedLiteral(value)
  ELSE LET val == parseInt(value, 0)
       IN IF val = JsNaN THEN HexByte(0) ELSE JoinBytes(BytesOf(val, length))

\* The size in bytes of an atomic type of the package (-1: no such type).
AtomicSize(type) ==
  CASE type = "int8u" -> 1
    [] type = "int16u" -> 2
    [] type = "int32u" -> 4
    [] OTHER -> -1

\* UnknownTypeBytes of a helper that leaves out the closing zero byte.
UnknownTypeBytesUnterminated(value) ==
  IF value = Null THEN <<0>> ELSE [i \in 1..Len(value) |-> CharCode(value[i])]

\* The bytes of a value whose type is not an atomic type of the package:
\* its characters and a closing zero byte.
UnknownTypeBytes(value) ==
  IF value = Null THEN <<0>> ELSE [i \in 1..Len(value) |-> CharCode(value[i])] \o <<0>>

\* asBytes(value, type): without type the value itself; with an atomic type
\* the value in the bytes of the type; else the characters of the value.
asBytes(value, type) ==
  IF type = NullType THEN value
  ELSE IF AtomicSize(type) = -1 THEN JoinBytes(UnknownTypeBytes(value))
  ELSE formatValue(value, AtomicSize(type))

\* The classification helpers look up the types of the store: package,
\* kind, name and size in bytes of each enum, bitmap and struct.
\* SelectType of a lookup that is not restricted to the package.
SelectTypeOfAnyPackage(rows, kind, name, packageId) ==
  {r \in rows : r.kind = kind /\ r.name = name}

\* The rows of the package for a type of the kind with the name.
SelectType(rows, kind, name, packageId) ==
  {r \in rows : r.pkg = packageId /\ r.kind = kind /\ r.name = name}

\* isEnum, isBitmap, isStruct: the tag of the kind when the package has a
\* type of that kind with the name, else the tag unknown.
Classify(rows, kind, name, packageId) ==
  IF SelectType(rows, kind, name, packageId) # {} THEN kind ELSE "unknown"
isEnum(rows, name, packageId) == Classify(rows, "enum", name, packageId)
isBitmap(rows, name, packageId) == Classify(rows, "bitmap", name, packageId)
isStruct(rows, name, packageId) == Classify(rows, "struct", name, packageId)

\* data_type_for_enum, dataTypeForBitmap: the machine data type of the enum
\* or bitmap of the package, or the text that names it invalid.
DataTypeFor(rows, kind, name, packageId) ==
  LET found == SelectType(rows, kind, name, packageId)
  IN IF found = {} THEN "!!Invalid " \o kind \o ": " \o name
     ELSE IF (CHOOSE r \in found : TRUE).size = 1 THEN "SL_CLI_ARG_UINT8"
     ELSE "SL_CLI_ARG_UINT16"
dataTypeForEnum(rows, name, packageId) == DataTypeFor(rows, "enum", name, packageId)
dataTypeForBitmap(rows, name, packageId) == DataTypeFor(rows, "bitmap", name, packageId)

\* The calls of the helpers.  Value texts write the numbers up to MaxValue
\* in decimal and in hexadecimal, and texts that write no number; a number
\* is formatted in a length that holds it.
HelperCalls ==
  LET HCall(fn, value, length, type, rows, name, pkg) ==
        [fn |-> fn, value |-> value, length |-> length, type |-> type,
         rows |-> rows, name |-> name, pkg |-> pkg]
      Numbers == UNION {{toString(n, 10), <<"0", "x">> \o toString(n, 16)} : n \in 0..MaxValue}
                 \cup {<<"0", "x", "A", "A">>, <<"0", "X", "1", "F", "F">>}
      Words == {<<"g">>, <<"G">>, <<"g", "g">>, <<"x">>}
      Fits(v, w) == w <= 0 \/ parseInt(v, 0) = JsNaN \/ w >= 2 \/ parseInt(v, 0) < 256
      TypeNames == {"Status", "patate"}
      PackageIds == {1, 2}
      TypeUniverse == [pkg : PackageIds, kind : {"enum", "bitmap", "struct"},
                       name : TypeNames, size : {1, 2}]
      SameType(r1, r2) == <<r1.pkg, r1.kind, r1.name>> = <<r2.pkg, r2.kind, r2.name>>
      RowSets == {rs \in {{}} \cup {{r1, r2} : r1, r2 \in TypeUniverse} :
                    \A r1, r2 \in rs : SameType(r1, r2) => r1 = r2}
  IN {c \in {HCall("formatValue", v, w, NullType, {}, "", 0) :
                v \in Numbers \cup Words, w \in {-1, 0, 1, 2, 4}} :
        Fits(c.value, c.length)}
     \cup {c \in {HCall("asBytes", v, 0, t, {}, "", 0) :
                     v \in Numbers \cup Words \cup {Null},
                     t \in {NullType, "int8u", "int16u", "int32u", "garbage"}} :
             AtomicSize(c.type) # -1 => (c.value # Null /\ Fits(c.value, AtomicSize(c.type)))}
     \cup {HCall(fn, <<>>, 0, NullType, rs, n, p) :
             fn \in {"isEnum", "isBitmap", "isStruct", "dataTypeForEnum", "dataTypeForBitmap"},
             rs \in RowSets, n \in TypeNames, p \in PackageIds}

HelperInit ==
  /\ NoLoad
  /\ NoUtil
  /\ NoServer
  /\ NoCluster
  /\ pin \in HelperCalls
  /\ pout = NoResult

HelperNext ==
  \/ Return("formatValue", formatValue(pin.value, pin.length))
  \/ Return("asBytes", asBytes(pin.value, pin.type))
  \/ Return("isEnum", isEnum(pin.rows, pin.name, pin.pkg))
  \/ Return("isBitmap", isBitmap(pin.rows, pin.name, pin.pkg))
  \/ Return("isStruct", isStruct(pin.rows, pin.name, pin.pkg))
  \/ Return("dataTypeForEnum", dataTypeForEnum(pin.rows, pin.name, pin.pkg))
  \/ Return("dataTypeForBitmap", dataTypeForBitmap(pin.rows, pin.name, pin.pkg))

HelperSpec == HelperInit /\ [][HelperNext]_vars

(***************************************************************************)
(* util.executePromisesSequentially(args, fn) with the fn of its test: fn   *)
(* sets a timer that pushes the argument and resolves the promise of the    *)
(* call.  Argument i is the number i.                                       *)
(***************************************************************************)
\* The largest number of arguments, and the delays of the timers.
MaxArgs == 3
Delays == 1..3

\* PreviousResolved of an execution that calls fn on every argument at once.
PreviousIgnored(i) == TRUE

\* The promise of the call before call i has resolved.
PreviousResolved(i) == i = 1 \/ \E k \in DOMAIN array : array[k] = i - 1

\* The execution may call fn on its next argument.
CallReady == called < Len(fnArgs) /\ PreviousResolved(called + 1)

\* fn(arg): new Promise with setTimeout(..., delay of arg).
CallFn ==
  /\ mode = "none"
  /\ CallReady
  /\ called' = called + 1
  /\ timers' = timers \cup {[arg |-> called + 1, due |-> now + fnArgs[called + 1]]}
  /\ UNCHANGED <<fnArgs, now, array, settled, LoaderVars, SessionVars, InitialStateVars, ClusterVars, PrepVars>>

\* The timer that is due first fires, once the calls that are ready have
\* been made: array.push(arg); resolve().  Of two timers due at the same
\* time the one set first fires first.
TimerFire ==
  /\ ~CallReady
  /\ \E t \in timers :
       /\ \A u \in timers : t.due < u.due \/ (t.due = u.due /\ t.arg <= u.arg)
       /\ now' = t.due
       /\ array' = Append(array, t.arg)
       /\ timers' = timers \ {t}
  /\ UNCHANGED <<fnArgs, called, settled, LoaderVars, SessionVars, InitialStateVars, ClusterVars, PrepVars>>

\* The promise of the last call has resolved, and so does the promise of
\* executePromisesSequentially.
SequenceSettle ==
  /\ mode = "none"
  /\ fnArgs # <<>>
  /\ ~settled
  /\ called = Len(fnArgs)
  /\ timers = {}
  /\ settled' = TRUE
  /\ UNCHANGED <<fnArgs, called, timers, now, array, LoaderVars, SessionVars, InitialStateVars,
                 ClusterVars, PrepVars>>

UtilInit ==
  /\ NoLoad
  /\ NoServer
  /\ NoCluster
  /\ pin = NoCall
  /\ pout = NoResult
  /\ fnArgs \in UNION {[1..n -> Delays] : n \in 1..MaxArgs}
  /\ called = 0
  /\ timers = {}
  /\ now = 0
  /\ array = <<>>
  /\ settled = FALSE

UtilNext == CallFn \/ TimerFire \/ SequenceSettle

UtilSpec == UtilInit /\ [][UtilNext]_vars

(***************************************************************************)
(* The server: ensureZapUserAndSession of query-session.js, and the         *)
(* handler httpGetInitialState of rest/user-data.js.                        *)
(***************************************************************************)
\* The largest number of users and of sessions.
MaxIds == 2

\* FreshId of a store that hands out the first id again.
FreshIdFirst(ids) == 1

\* The id of a row inserted into a table that holds the ids.
FreshId(ids) == Cardinality(ids) + 1

\* Relink of a store that keeps the link of the session to its former user.
RelinkKeepingOld(pairs, s, u) == pairs \cup {<<s, u>>}

\* The session s is given the user u.
Relink(pairs, s, u) == {l \in pairs : l[1] # s} \cup {<<s, u>>}

\* getUserSessions(db, userId)
getUserSessions(pairs, u) == {l[1] : l \in {k \in pairs : k[2] = u}}

\* ensureZapUserAndSession(db, userKey, sessionUuid, { userId, sessionId }):
\* 0 stands for an id that is not given.  A user or a session that is not
\* given is created, under a key that the store does not hold.
EnsureZapUserAndSession(userId, sessionId) ==
  LET newUser == FreshId(users)
      newSession == FreshId(sessions)
      u == IF userId # 0 THEN userId ELSE newUser
      sn == IF sessionId # 0 THEN sessionId ELSE newSession
  IN /\ mode = "none"
     /\ fnArgs = <<>>
     /\ userId = 0 => Cardinality(users) < MaxIds
     /\ sessionId = 0 => Cardinality(sessions) < MaxIds
     /\ users' = users \cup {u}
     /\ sessions' = sessions \cup {sn}
     /\ sessionUser' = IF userId # 0 /\ sessionId # 0 THEN sessionUser
                       ELSE Relink(sessionUser, sn, u)
     /\ ens' = [called |-> TRUE, userGiven |-> userId, sessionGiven |-> sessionId,
                userId |-> u, sessionId |-> sn,
                usersBefore |-> users, sessionsBefore |-> sessions,
                linksBefore |-> sessionUser]
     /\ UNCHANGED <<LoaderVars, UtilVars, InitialStateVars, ClusterVars, PrepVars>>

\* The request: the three queries are issued, each with the then that sets
\* its key of the state object.
HttpGetInitialState ==
  /\ mode = "none"
  /\ fnArgs = <<>>
  /\ \A q \in StateQueries : queries[q] = "none"
  /\ queries' = [q \in StateQueries |-> "pending"]
  /\ UNCHANGED <<initialState, responses, LoaderVars, UtilVars, SessionVars, ClusterVars, PrepVars>>

\* A query resolves, and its then sets the key; or it rejects.
StateQueryDone(q) ==
  /\ queries[q] = "pending"
  /\ \/ /\ queries' = [queries EXCEPT ![q] = "resolved"]
        /\ initialState' = initialState \cup {q}
     \/ /\ queries' = [queries EXCEPT ![q] = "rejected"]
        /\ initialState' = initialState
  /\ UNCHANGED <<responses, LoaderVars, UtilVars, SessionVars, ClusterVars, PrepVars>>

\* PopulatorsResolved of a handler that answers after the first query.
PopulatorsAnyResolved(qs) == \E q \in StateQueries : qs[q] = "resolved"

\* Promise.all(statePopulators) has resolved.
PopulatorsResolved(qs) == \A q \in StateQueries : qs[q] = "resolved"

\* .then(() => response.status(restApi.httpCode.ok).json(state))
StateRespond ==
  /\ PopulatorsResolved(queries)
  /\ responses = <<>>
  /\ responses' = Append(responses, [code |-> 200, keys |-> initialState])
  /\ UNCHANGED <<queries, initialState, LoaderVars, UtilVars, SessionVars, ClusterVars, PrepVars>>

ServerInit ==
  /\ NoLoad
  /\ NoUtil
  /\ NoServer
  /\ NoCluster
  /\ pin = NoCall
  /\ pout = NoResult

ServerNext ==
  \/ \E u \in {0} \cup users, sn \in {0} \cup sessions : EnsureZapUserAndSession(u, sn)
  \/ HttpGetInitialState
  \/ \E q \in StateQueries : StateQueryDone(q)
  \/ StateRespond

ServerSpec == ServerInit /\ [][ServerNext]_vars

\* The then of a promise that has resolved is run.
ServerFairSpec == ServerSpec /\ WF_vars(StateRespond)

(***************************************************************************)
(* httpPostCluster: the handler of the cluster request.  Its promise chain *)
(* asks for the zclProperties packages of the session, reads the state of  *)
(* the cluster, writes the state, inserts the defaults of the cluster if   *)
(* there was no state, and answers.  The catch is attached to the inner    *)
(* chain, which starts at insertOrReplaceClusterState.                     *)
(***************************************************************************)
\* A response of request r: the status code and the body.
PostResponse(r, code) ==
  [posts EXCEPT ![r].at = "sent",
                ![r].responses =
                  Append(@, [code |-> code,
                             body |-> IF code = 200
                                      THEN <<posts[r].triple, posts[r].flag>>
                                      ELSE <<>>])]

\* The request arrives: getSessionPackagesByType is called.
HttpPostCluster(r, triple, flag) ==
  /\ posts[r].at = "none"
  /\ posts' = [posts EXCEPT ![r] = [at |-> "packages", triple |-> triple, flag |-> flag,
                                    insertDefaults |-> FALSE, responses |-> <<>>]]
  /\ UNCHANGED <<hasPackage, clusterStates, clusterDefaults>>
  /\ UNCHANGED <<LoaderVars, UtilVars, SessionVars, InitialStateVars, PrepVars>>

\* getSessionPackagesByType settles.  packageId = pkgs[0].id raises a
\* TypeError when the session has no such package; then, and when the query
\* rejects, the outer chain rejects, and no catch is attached to it.
\* Otherwise getClusterState is called.
SessionPackagesDone(r) ==
  /\ posts[r].at = "packages"
  /\ \/ posts' = [posts EXCEPT ![r].at = IF hasPackage THEN "state" ELSE "unhandled"]
     \/ posts' = [posts EXCEPT ![r].at = "unhandled"]
  /\ UNCHANGED <<hasPackage, clusterStates, clusterDefaults>>
  /\ UNCHANGED <<LoaderVars, UtilVars, SessionVars, InitialStateVars, PrepVars>>

\* getClusterState settles: insertDefaults is clusterState == null, and
\* insertOrReplaceClusterState is called; or the query rejects.
ClusterStateDone(r) ==
  /\ posts[r].at = "state"
  /\ \/ posts' = [posts EXCEPT ![r].at = "replace",
                                ![r].insertDefaults = posts[r].triple \notin clusterStates]
     \/ posts' = [posts EXCEPT ![r].at = "unhandled"]
  /\ UNCHANGED <<hasPackage, clusterStates, clusterDefaults>>
  /\ UNCHANGED <<LoaderVars, UtilVars, SessionVars, InitialStateVars, PrepVars>>

\* insertOrReplaceClusterState settles: insertClusterDefaults is called if
\* insertDefaults, else the answer is 200; a rejection goes to the catch,
\* which answers 400.
ClusterReplaceDone(r) ==
  /\ posts[r].at = "replace"
  /\ \/ /\ clusterStates' = clusterStates \cup {posts[r].triple}
        /\ posts' = IF posts[r].insertDefaults THEN [posts EXCEPT ![r].at = "defaults"]
                    ELSE PostResponse(r, 200)
     \/ /\ clusterStates' = clusterStates
        /\ posts' = PostResponse(r, 400)
  /\ UNCHANGED <<hasPackage, clusterDefaults>>
  /\ UNCHANGED <<LoaderVars, UtilVars, SessionVars, InitialStateVars, PrepVars>>

\* insertClusterDefaults settles: the answer is 200, or 400 from the catch.
ClusterDefaultsDone(r) ==
  /\ posts[r].at = "defaults"
  /\ \/ /\ clusterDefaults' = [clusterDefaults EXCEPT ![posts[r].triple] = @ + 1]
        /\ posts' = PostResponse(r, 200)
     \/ /\ clusterDefaults' = clusterDefaults
        /\ posts' = PostResponse(r, 400)
  /\ UNCHANGED <<hasPackage, clusterStates>>
  /\ UNCHANGED <<LoaderVars, UtilVars, SessionVars, InitialStateVars, PrepVars>>

ClusterInit ==
  /\ NoLoad
  /\ NoUtil
  /\ NoServer
  /\ pin = NoCall
  /\ pout = NoResult
  /\ posts = [r \in Posts |-> NoPost]
  /\ hasPackage \in BOOLEAN
  /\ clusterStates \in SUBSET Triples
  /\ clusterDefaults = [t \in Triples |-> IF t \in clusterStates THEN 1 ELSE 0]

ClusterNext ==
  \/ \E r \in Posts, t \in Triples, flag \in BOOLEAN : HttpPostCluster(r, t, flag)
  \/ \E r \in Posts : SessionPackagesDone(r)
  \/ \E r \in Posts : ClusterStateDone(r)
  \/ \E r \in Posts : ClusterReplaceDone(r)
  \/ \E r \in Posts : ClusterDefaultsDone(r)

ClusterSpec == ClusterInit /\ [][ClusterNext]_vars

(***************************************************************************)
(* Properties.                                                             *)
(***************************************************************************)
\* The files of the load in progress.
LoadFiles == IF mode = "manifest" THEN Files ELSE {1}

\* A file failed inside parseSingleZclFile.
SomeFileFailed == \E f \in Files : ferr[f] # NoErr

\* Every insertion of the given phase has completed: each file either has
\* none, or its insertion has settled, or the file ended without issuing it.
PhaseComplete(tags) ==
  \A g \in LoadFiles, t \in tags :
    \/ ins[g][t] \in {"ok", "err"}
    \/ ins[g][t] = "none" /\ (t \notin shape[g] \/ fpc[g] = "done")

Step3Started == \E f \in Files, t \in Step3Tasks : p3[f][t] # "none"

\* The awaited step of loadSilabsZcl that raised error e.
SimpleSteps ==
  {"readMetadataFile", "recordToplevelPackage", "collectData", "recordVersion",
   "parseManufacturerData", "processCustomZclDeviceType", "parseOptions",
   "parseDefaults", "parseZclSchema"}
StepOfErr(e) == IF e.kind \in SimpleSteps THEN e.kind ELSE "parseZclFiles"

\* C1: when a step of loadSilabsZcl fails after the transaction was begun,
\* the transaction is rolled back: no row inserted during the load is
\* committed or visible to readers.
C1_RolledBackOnError ==
  (mode = "manifest" /\ beginCount = 1 /\ caught # NoErr) => committed = {}

\* C2: loadSilabsZcl rejects with the error raised by the first failing
\* awaited step, starts no step after the failing one, and never resolves
\* after a failure.
C2_RejectsWithFirstFailure ==
  mode = "manifest" =>
    /\ caught # NoErr =>
         /\ trace # <<>>
         /\ trace[Len(trace)] = StepOfErr(caught)
         /\ result.state # "resolved"
         /\ pc \in {"finally", "done"}
         /\ pc = "done" => result = [state |-> "rejected", succeeded |-> FALSE, err |-> caught]
    /\ result.state = "rejected" =>
         \/ result.err = caught /\ caught # NoErr
         \/ result.err = Err("dbBeginTransaction", 0) /\ trace = <<>>
    /\ result.state = "resolved" => caught = NoErr /\ pc = "done"

C2_Witness ==
  /\ mode = "manifest"
  /\ pc = "done"
  /\ caught = Err("parseOptions", 0)
  /\ result.state = "rejected"
  /\ Len(trace) >= 5

C4_Phase2AfterPhase1 ==
  (\E f \in Files, t \in Step2Tags : ins[f][t] # "none") => PhaseComplete(Step1Tags)

\* C5: loadIndividualSilabsFile never rejects: it resolves with
\* {succeeded: false, err} after any failure and with {succeeded: true}
\* only when nothing failed.
C5_IndividualNeverRejects ==
  mode = "individual" =>
    /\ result.state # "rejected"
    /\ pc = "done" =>
         /\ result.state = "resolved"
         /\ result.succeeded = (result.err = NoErr)
         /\ result.succeeded =>
              /\ post = 1
              /\ validator \in {"none", "valid"}
              /\ \A t \in InsertTags : ins[1][t] \in {"none", "ok"}
              /\ \A t \in Step3Tasks : p3[1][t] \in {"none", "ok"}
    /\ pc # "done" => result = Pending

C5_Witness ==
  /\ mode = "individual"
  /\ pc = "done"
  /\ result = [state |-> "resolved", succeeded |-> FALSE, err |-> Err("step3", 1)]

\* C6: a loadSilabsZcl call begins exactly one transaction, before any other
\* store operation, and ends it exactly once on the success path and on
\* every failure path.
C6_OneTransaction ==
  mode = "manifest" =>
    /\ beginCount <= 1
    /\ commitCount <= beginCount
    /\ beginCount = 0 => trace = <<>> /\ uncommitted = {} /\ committed = {}
    /\ pc = "done" => commitCount = beginCount
    /\ pc # "done" => commitCount = 0

C6_Witness ==
  /\ mode = "manifest"
  /\ pc = "done"
  /\ caught # NoErr
  /\ beginCount = 1
  /\ commitCount = 1

C8_FileFailureRejectsLoad ==
  (mode = "manifest" /\ SomeFileFailed) =>
    /\ result.state # "resolved"
    /\ post = 0
    /\ pc \in {"barrier", "finally", "done"}
    /\ pc = "done" => result.state = "rejected"

C8_Witness ==
  /\ mode = "manifest"
  /\ pc = "done"
  /\ ferr[1] = Err("parseXml", 1)
  /\ result.state = "rejected"

\* C9: when a file of the manifest failed in phase 1 or 2, no phase-3 task
\* of any file is started.
C9_AllOrNothingBarrier ==
  (mode = "manifest" /\ SomeFileFailed) => ~Step3Started

\* C10: when a manifest file cannot be parsed, the error that reaches the
\* caller of the load names the failing file and carries the cause.
C10_ErrorNamesFile ==
  (mode = "manifest" /\ result.state = "rejected"
     /\ \E f \in Files : ferr[f].kind = "parseXml") =>
    \E f \in Files : ferr[f] # NoErr /\ result.err = ferr[f]

\* C11: a file that qualifyZclFile reports as registered (no content comes
\* back) is never parsed, starts no phase-1 or phase-2 insertion and no
\* phase-3 task, inserts no row, and its processing returns no task.
C11_RegisteredFileNotReloaded ==
  \A f \in Files :
    known[f] = "registered" =>
      /\ fpc[f] \notin {"parse", "await1", "await2"}
      /\ \A t \in InsertTags : ins[f][t] = "none"
      /\ \A t \in Step3Tasks : p3[f][t] = "none"
      /\ \A r \in uncommitted \cup committed : r.src # f
      /\ fret[f].state = "tasks" => fret[f].tasks = <<>>

\* A load has resolved in which a registered file was skipped and the
\* phase-3 tasks of the other files have run.
C11_Witness ==
  /\ result.state = "resolved"
  /\ result.succeeded
  /\ mode = "manifest"
  /\ \E f \in Files : known[f] = "registered" /\ fret[f].state = "tasks"
  /\ \E f \in Files, t \in Step3Tasks : known[f] = "new" /\ p3[f][t] = "ok"

\* The tables filled by the steps of loadSilabsZcl that follow parseZclFiles.
ChildTables ==
  {"manufacturerCodes", "customDeviceType", "options", "defaults",
   "zclSchema", "zclValidation"}

\* C12: a load of a manifest that is registered already, with unchanged
\* files, inserts nothing beyond the package lookup: no manufacturer codes,
\* custom device type, options, defaults or schema/validation records.
C12_SecondLoadInsertsNothing ==
  (mode = "manifest" /\ prior) =>
    \A r \in uncommitted \cup committed : r.table \notin ChildTables

\* C13: the prepared children of a struct, an enum and a bitmap are the
\* children of the source element in source order, and the ordinal of the
\* i-th of N children is i - 1, so the ordinals are exactly 0 .. N-1.
C13_OrdinalsInSourceOrder ==
  (pout.done /\ pin.fn \in {"prepareStruct", "prepareEnum", "prepareBitmap"}) =>
    LET src == IF pin.fn = "prepareBitmap" THEN pin.arg.field ELSE pin.arg.item
        out == IF pin.fn = "prepareBitmap" THEN pout.value.fields ELSE pout.value.items
    IN /\ Len(out) = Len(src)
       /\ \A i \in 1..Len(src) : out[i].name = src[i].name /\ out[i].ordinal = i - 1
       /\ {out[i].ordinal : i \in 1..Len(out)} = 0..(Len(src) - 1)

\* A struct with the longest child list, whose children differ, was prepared.
C13_Witness ==
  /\ pout.done
  /\ pin.fn = "prepareStruct"
  /\ Len(pin.arg.item) = MaxItems
  /\ pin.arg.item[1].name # pin.arg.item[2].name
  /\ Len(pout.value.items) = MaxItems

\* The names of the elements of a list.
NamesOf(list) == [i \in 1..Len(list) |-> list[i].name]

\* C14: the prepared argument list of every command of a cluster or of a
\* cluster extension holds no argument with removedIn set, and holds every
\* argument without removedIn, in source order.
C14_RemovedArgsExcluded ==
  (pout.done /\ pin.fn = "prepareCluster") =>
    \A c \in 1..Len(pin.arg.command) :
      LET src == pin.arg.command[c].arg
          out == pout.value.commands[c].args
      IN /\ \A j \in 1..Len(out) : out[j].removedIn = Undefined
         /\ NamesOf(out) = NamesOf(SelectSeq(src, LAMBDA a : a.removedIn = Undefined))

\* A command of a cluster extension was prepared whose first argument is
\* removed and whose later arguments are not.
C14_Witness ==
  /\ pout.done
  /\ pin.fn = "prepareCluster"
  /\ pin.isExtension
  /\ Len(pin.arg.command) = 1
  /\ LET src == pin.arg.command[1].arg
     IN /\ Len(src) = MaxItems
        /\ src[1].removedIn # Undefined
        /\ src[2].removedIn = Undefined
        /\ src[3].removedIn = Undefined
        /\ src[2].name # src[3].name
  /\ Len(pout.value.commands[1].args) = MaxItems - 1

RECURSIVE RowsBefore(_, _)
RowsBefore(gas, i) ==
  IF i <= 1 THEN 0
  ELSE RowsBefore(gas, i - 1) + (IF gas[i - 1].side = "either" THEN 2 ELSE 1)

\* C16: prepareClusterGlobalAttribute turns every globalAttribute entry with
\* side "either" into exactly two rows, client and server, with the code and
\* the value of the entry, and every other entry into exactly one row with
\* its side; for a cluster without globalAttribute it returns null.
C16_EitherSideExpanded ==
  (pout.done /\ pin.fn = "prepareClusterGlobalAttribute") =>
    LET gas == pin.arg.globalAttribute
        rows == pout.value.globalAttribute
        RowOf(ga, side) ==
          [code |-> parseInt(ga.code, 0), side |-> side, value |-> ga.value]
    IN IF gas = <<>>
       THEN pout.value.null
       ELSE /\ ~pout.value.null
            /\ Len(rows) = RowsBefore(gas, Len(gas) + 1)
            /\ \A i \in 1..Len(gas) :
                 LET k == RowsBefore(gas, i)
                 IN IF gas[i].side = "either"
                    THEN /\ rows[k + 1] = RowOf(gas[i], "client")
                         /\ rows[k + 2] = RowOf(gas[i], "server")
                    ELSE rows[k + 1] = RowOf(gas[i], gas[i].side)

\* A cluster was prepared whose globalAttribute entries have side "either"
\* and another side.
C16_Witness ==
  /\ pout.done
  /\ pin.fn = "prepareClusterGlobalAttribute"
  /\ Len(pin.arg.globalAttribute) = MaxItems
  /\ pin.arg.globalAttribute[1].side = "either"
  /\ pin.arg.globalAttribute[2].side = "server"
  /\ Len(pout.value.globalAttribute) > MaxItems

\* C17: for every default that the manifest declares, of defaults.text or of
\* defaults.bool, and that matches no option row of its category,
\* loadSilabsZcl fails with an error and no default row is inserted for
\* that category.
C17_UnmatchedDefaultFails ==
  mode = "manifest" =>
    \A d \in ctx.defaultValues :
      (ctx.defaults /\ DefaultOption(optRows, d) = NoRow) =>
        /\ \A r \in defRows : r.cat # d.cat
        /\ dfl[d.cat] \notin {"insert", "ok"}
        /\ result.state # "resolved"
        /\ pc = "done" => result.state = "rejected" /\ result.err # NoErr

\* A load has failed in parseDefaults: the text default and the boolean
\* default match no option, their lookups have resolved, and no default row
\* was inserted.
C17_Witness ==
  /\ mode = "manifest"
  /\ pc = "done"
  /\ result = [state |-> "rejected", succeeded |-> FALSE, err |-> Err("parseDefaults", 0)]
  /\ dfl["defaultResponsePolicy"] = "nomatch"
  /\ dfl["commandDiscovery"] = "typeError"
  /\ optRows # {}
  /\ defRows = {}

\* C18: a package holds at most one device type with the custom code and
\* name; after a load with supportCustomZclDevice it holds exactly one,
\* whether a file of the load defines it, an earlier load left it, or
\* processCustomZclDeviceType inserted it, and processCustomZclDeviceType
\* inserts none unless the flag is set.
C18_OneCustomDeviceType ==
  mode = "manifest" =>
    /\ customDev <= 1
    /\ (result.state = "resolved" /\ ctx.supportCustomZclDevice) => customDev = 1
    /\ Row(0, "customDeviceType") \in uncommitted \cup committed =>
         /\ ctx.supportCustomZclDevice
         /\ customDev = 1
         /\ ~prior
         /\ customFile # 0 => ins[customFile]["deviceType"] # "ok"

\* A load with the flag has resolved whose files define the custom device
\* type: processCustomZclDeviceType has run and has inserted none.
C18_Witness ==
  /\ mode = "manifest"
  /\ result.state = "resolved"
  /\ ctx.supportCustomZclDevice
  /\ customFile # 0
  /\ ins[customFile]["deviceType"] = "ok"
  /\ "processCustomZclDeviceType" \in {trace[i] : i \in 1..Len(trace)}
  /\ Row(0, "customDeviceType") \notin uncommitted \cup committed
  /\ customDev = 1

C20_LinkIffLoaded ==
  mode = "individual" =>
    /\ links <= 1
    /\ (links = 1 \/ rest.at = "linking") => (pc = "done" /\ result.err = NoErr)
    /\ rest.at = "sent" =>
         /\ pc = "done"
         /\ result.err # NoErr =>
              /\ links = 0
              /\ rest.code = 200
              /\ ~rest.isValid
              /\ rest.err = result.err.kind
         /\ result.err = NoErr => (links = 1 \/ rest.thrown)
         /\ rest.code = 200 /\ rest.isValid => links = 1
         /\ rest.code \in {200, 400}
         /\ rest.code = 400 <=> rest.thrown

\* The load of an invalid file was answered with 200 and isValid false, and
\* no link was inserted.
C20_Witness ==
  /\ mode = "individual"
  /\ rest = Request("sent", 200, FALSE, "Validation Failed", FALSE)
  /\ result.err = Err("Validation Failed", 1)
  /\ links = 0

\* The number of times the awaited step was started by the load.
TraceCount(name) == Cardinality({i \in DOMAIN trace : trace[i] = name})

\* The position of the first start of the awaited step in the trace (0: none).
TracePos(name) ==
  IF TraceCount(name) = 0 THEN 0
  ELSE CHOOSE i \in DOMAIN trace :
         trace[i] = name /\ \A j \in 1..(i - 1) : trace[j] # name

\* C21: after a successful loadSilabsZcl of a manifest that declares a
\* version, the returned context carries the version and the package has
\* it; recordVersion is called exactly once, after the package was
\* registered and before any file is loaded, and it is not called when the
\* manifest declares no version.
C21_VersionRecordedOnce ==
  mode = "manifest" =>
    /\ TraceCount("recordVersion") <= 1
    /\ ~manifest.version => TraceCount("recordVersion") = 0
    /\ TraceCount("recordVersion") = 1 =>
         /\ TracePos("recordToplevelPackage") # 0
         /\ TracePos("recordToplevelPackage") < TracePos("recordVersion")
         /\ TracePos("parseZclFiles") # 0 => TracePos("recordVersion") < TracePos("parseZclFiles")
    /\ (manifest.version /\ \E f \in Files : fpc[f] # "idle") =>
         /\ TraceCount("recordVersion") = 1
         /\ Row(0, "version") \in uncommitted \cup committed
    /\ (manifest.version /\ result.state = "resolved") =>
         /\ ctx.version
         /\ TraceCount("recordVersion") = 1
         /\ Row(0, "version") \in uncommitted \cup committed

\* A manifest that declares a version was loaded, with its files.
C21_Witness ==
  /\ mode = "manifest"
  /\ manifest.version
  /\ result.state = "resolved"
  /\ TracePos("recordVersion") = 4
  /\ TracePos("parseZclFiles") = 5
  /\ \A f \in Files : fpc[f] = "done"

\* The bytes that a text of the form 0xHH, 0xHH, ... writes, in order;
\* <<-1>> for a text that is not of this form.
RECURSIVE ByteValues(_)
ByteValues(t) ==
  IF Len(t) < 4 \/ t[1] # "0" \/ t[2] # "x" \/ DigitVal(t[3]) > 15 \/ DigitVal(t[4]) > 15
  THEN <<-1>>
  ELSE LET b == DigitVal(t[3]) * 16 + DigitVal(t[4])
       IN IF Len(t) = 4 THEN <<b>>
          ELSE IF Len(t) < 6 \/ t[5] # "," \/ t[6] # " " THEN <<-1>>
          ELSE LET more == ByteValues(SubSeq(t, 7, Len(t)))
               IN IF more = <<-1>> THEN <<-1>> ELSE <<b>> \o more

\* The number whose bytes, most significant first, are bs.
RECURSIVE NumberOfBytes(_)
NumberOfBytes(bs) ==
  IF bs = <<>> THEN 0
  ELSE NumberOfBytes(SubSeq(bs, 1, Len(bs) - 1)) * 256 + bs[Len(bs)]

\* C22: asBytes of a value of an atomic type is exactly as many bytes as
\* the type is wide, each two hexadecimal digits, most significant first
\* and padded with zeros (asBytes('6', 'int8u') = '0x06'); for a type that
\* is not recognised it is the codes of the characters of the value and a
\* closing 0x00 (asBytes('9', 'garbage') = '0x39, 0x00', asBytes(null,
\* 'garbage') = '0x00'); with a null type the value is returned unchanged.
C22_AsBytes ==
  (pin.fn = "asBytes" /\ pout.done) =>
    LET v == pin.value
        out == pout.value
        w == AtomicSize(pin.type)
    IN /\ pin.type = NullType => out = v
       /\ (pin.type # NullType /\ w > 0 /\ parseInt(v, 0) # JsNaN) =>
            /\ ByteValues(out) # <<-1>>
            /\ Len(ByteValues(out)) = w
            /\ Len(out) = 6 * w - 2
            /\ NumberOfBytes(ByteValues(out)) = parseInt(v, 0)
       /\ (pin.type = "int8u" /\ v = <<"6">>) => out = <<"0", "x", "0", "6">>
       /\ (pin.type # NullType /\ w = -1 /\ v = Null) => out = <<"0", "x", "0", "0">>
       /\ (pin.type # NullType /\ w = -1 /\ v # Null) =>
            /\ ByteValues(out) # <<-1>>
            /\ Len(ByteValues(out)) = Len(v) + 1
            /\ ByteValues(out)[Len(v) + 1] = 0
            /\ \A i \in 1..Len(v) : ByteValues(out)[i] = CharCode(v[i])
       /\ (pin.type = "garbage" /\ v = <<"9">>) =>
            out = <<"0", "x", "3", "9", ",", " ", "0", "x", "0", "0">>

\* asBytes('9', 'garbage') has returned '0x39, 0x00'.
C22_Witness ==
  /\ pin.fn = "asBytes"
  /\ pin.type = "garbage"
  /\ pin.value = <<"9">>
  /\ pout.done
  /\ pout.value = <<"0", "x", "3", "9", ",", " ", "0", "x", "0", "0">>

\* C23: formatValue of a numeric value and a width w > 0 is exactly w
\* bytes, the value padded on the left with 0x00 bytes ('0xAA', 2 ->
\* '0x00, 0xAA'; '42', 1 -> '0x2A'); a value that is no number gives, for
\* a positive width, the single byte '0x00'; with a width <= 0 the result
\* is the quoted literal with its length in front ('g', -1 -> "1,'g'"),
\* which is never a list of bytes.
C23_FormatValue ==
  (pin.fn = "formatValue" /\ pout.done) =>
    LET v == pin.value
        w == pin.length
        out == pout.value
        n == parseInt(v, 0)
        lenText == toString(Len(v), 10)
    IN /\ (w > 0 /\ n # JsNaN) =>
            /\ ByteValues(out) # <<-1>>
            /\ Len(ByteValues(out)) = w
            /\ NumberOfBytes(ByteValues(out)) = n
            /\ \A i \in 1..w : (n < 256 /\ i < w) => ByteValues(out)[i] = 0
       /\ (w = 2 /\ v = <<"0", "x", "A", "A">>) =>
            out = <<"0", "x", "0", "0", ",", " ", "0", "x", "A", "A">>
       /\ (w = 1 /\ v = <<"4", "2">>) => out = <<"0", "x", "2", "A">>
       /\ (w > 0 /\ n = JsNaN) => out = <<"0", "x", "0", "0">>
       /\ w <= 0 =>
            /\ ByteValues(out) = <<-1>>
            /\ Len(out) = Len(lenText) + 4 * Len(v)
            /\ SubSeq(out, 1, Len(lenText)) = lenText
            /\ \A i \in 1..Len(v) :
                 SubSeq(out, Len(lenText) + 4 * i - 3, Len(lenText) + 4 * i)
                   = <<",", "'", v[i], "'">>
       /\ (w = -1 /\ v = <<"g">>) => out = <<"1", ",", "'", "g", "'">>

\* formatValue('0xAA', 2) has returned '0x00, 0xAA'.
C23_Witness ==
  /\ pin.fn = "formatValue"
  /\ pin.value = <<"0", "x", "A", "A">>
  /\ pin.length = 2
  /\ pout.done
  /\ pout.value = <<"0", "x", "0", "0", ",", " ", "0", "x", "A", "A">>

\* The kind of type that a classification helper or a data-type helper asks for.
KindOf(fn) ==
  CASE fn \in {"isEnum", "dataTypeForEnum"} -> "enum"
    [] fn \in {"isBitmap", "dataTypeForBitmap"} -> "bitmap"
    [] fn = "isStruct" -> "struct"
    [] OTHER -> "none"

\* C24: the classification is total: isEnum, isBitmap and isStruct return
\* their own tag when the name is such a type of the package and the tag
\* unknown otherwise; the data-type helpers of enums and bitmaps return
\* '!!Invalid enum: <name>' and '!!Invalid bitmap: <name>' for a name that
\* the package does not resolve.
C24_ClassificationTotal ==
  (KindOf(pin.fn) # "none" /\ pout.done) =>
    LET kind == KindOf(pin.fn)
        inPackage == \E r \in pin.rows :
                       r.pkg = pin.pkg /\ r.kind = kind /\ r.name = pin.name
    IN /\ pin.fn \in {"isEnum", "isBitmap", "isStruct"} =>
            /\ pout.value \in {kind, "unknown"}
            /\ pout.value = kind <=> inPackage
       /\ (pin.fn = "dataTypeForEnum" /\ ~inPackage) =>
            pout.value = (IF pin.name = "patate" THEN "!!Invalid enum: patate"
                          ELSE "!!Invalid enum: Status")
       /\ (pin.fn = "dataTypeForBitmap" /\ ~inPackage) =>
            pout.value = (IF pin.name = "patate" THEN "!!Invalid bitmap: patate"
                          ELSE "!!Invalid bitmap: Status")
       /\ (pin.fn \in {"dataTypeForEnum", "dataTypeForBitmap"} /\ inPackage) =>
            pout.value \in {"SL_CLI_ARG_UINT8", "SL_CLI_ARG_UINT16"}

\* isEnum has answered unknown for a name that is an enum of another
\* package and a bitmap of the package asked about.
C24_Witness ==
  /\ pin.fn = "isEnum"
  /\ pin.name = "patate"
  /\ pin.pkg = 1
  /\ pin.rows = {[pkg |-> 2, kind |-> "enum", name |-> "patate", size |-> 1],
                 [pkg |-> 1, kind |-> "bitmap", name |-> "patate", size |-> 1]}
  /\ pout.done
  /\ pout.value = "unknown"

\* C25: executePromisesSequentially calls fn on the arguments in the order
\* of the list and starts the call for an argument only after the promise
\* of the argument before it has resolved, so that the effects occur in
\* the order of the list whatever the delays are, also when later calls
\* are faster than earlier ones.
C25_SequentialInListOrder ==
  fnArgs # <<>> =>
    /\ \A k \in DOMAIN array : array[k] = k
    /\ called <= Len(array) + 1
    /\ \A t \in timers : t.arg = Len(array) + 1
    /\ settled => array = [k \in 1..Len(fnArgs) |-> k]

\* Three calls, each faster than the one before it, have pushed their
\* arguments in the order of the list.
C25_Witness ==
  /\ settled
  /\ fnArgs = <<3, 2, 1>>
  /\ array = <<1, 2, 3>>
  /\ now = 6

\* C26: ensureZapUserAndSession returns the userId and the sessionId that
\* it is given, unchanged, and creates a fresh id, not null and different
\* from every existing one, for each that is not given; a new session for
\* an existing user adds exactly one session to that user; with both ids
\* given no user and no session is created and no link changes.
C26_EnsureUserAndSession ==
  ens.called =>
    /\ ens.userGiven # 0 => (ens.userId = ens.userGiven /\ users = ens.usersBefore)
    /\ ens.sessionGiven # 0 => (ens.sessionId = ens.sessionGiven /\ sessions = ens.sessionsBefore)
    /\ ens.userGiven = 0 =>
         /\ ens.userId # 0
         /\ ens.userId \notin ens.usersBefore
         /\ users = ens.usersBefore \cup {ens.userId}
    /\ ens.sessionGiven = 0 =>
         /\ ens.sessionId # 0
         /\ ens.sessionId \notin ens.sessionsBefore
         /\ sessions = ens.sessionsBefore \cup {ens.sessionId}
    /\ (ens.userGiven # 0 /\ ens.sessionGiven = 0) =>
         /\ getUserSessions(sessionUser, ens.userId)
              = getUserSessions(ens.linksBefore, ens.userId) \cup {ens.sessionId}
         /\ Cardinality(getUserSessions(sessionUser, ens.userId))
              = Cardinality(getUserSessions(ens.linksBefore, ens.userId)) + 1
    /\ (ens.userGiven # 0 /\ ens.sessionGiven # 0) => sessionUser = ens.linksBefore

\* A second session was created for the user that has the first one.
C26_Witness ==
  /\ ens.called
  /\ ens.userGiven = 1
  /\ ens.sessionGiven = 0
  /\ ens.sessionId = 2
  /\ users = {1}
  /\ getUserSessions(sessionUser, 1) = {1, 2}

\* C27: a session has one user at a time: after ensureZapUserAndSession
\* is called with an existing sessionId and a new user key, the session is
\* among the sessions of the user created by the call and no longer among
\* the sessions of the user that had it before.
C27_SessionHasOneUser ==
  /\ \A sn \in sessions : Cardinality({l \in sessionUser : l[1] = sn}) = 1
  /\ (ens.called /\ ens.sessionGiven # 0 /\ ens.userGiven = 0) =>
       /\ ens.sessionId \in getUserSessions(sessionUser, ens.userId)
       /\ \A u \in ens.usersBefore : ens.sessionId \notin getUserSessions(sessionUser, u)
       /\ \E u \in ens.usersBefore : ens.sessionId \in getUserSessions(ens.linksBefore, u)

\* The first session of a user with two sessions was given to a new user.
C27_Witness ==
  /\ ens.called
  /\ ens.sessionGiven = 1
  /\ ens.userGiven = 0
  /\ ens.userId = 2
  /\ ens.linksBefore = {<<1, 1>>, <<2, 1>>}
  /\ sessionUser = {<<1, 2>>, <<2, 1>>}

\* C28: the handler of the initial state responds once, with status 200,
\* and only after its three queries have completed; the state it returns
\* has the keys endpointTypes, endpoints and sessionKeyValues, whatever the
\* order in which the queries complete.
C28_InitialStateAfterAllQueries ==
  /\ [](/\ Len(responses) <= 1
        /\ responses # <<>> =>
             /\ \A q \in StateQueries : queries[q] = "resolved"
             /\ responses[1].code = 200
             /\ responses[1].keys = {"endpointTypes", "endpoints", "sessionKeyValues"})
  /\ (\A q \in StateQueries : queries[q] = "resolved") ~> (Len(responses) = 1)

\* The three queries have resolved and the response was sent.
C28_Witness ==
  /\ \A q \in StateQueries : queries[q] = "resolved"
  /\ responses = <<[code |-> 200, keys |-> StateQueries]>>

\* C29: parseTextDefaults uses the option row that matches the declared
\* default exactly whenever there is one; only when there is none and the
\* declared value is a number does it look up the 0x form of the number;
\* the default row that is inserted refers to the option row found, which
\* is of the same category.
C29_ExactMatchBeforeHex ==
  mode = "manifest" =>
    \A c \in DefaultCats(ctx) :
      DefaultOf(ctx, c).kind = "text" =>
        LET d == DefaultOf(ctx, c)
            exact == [cat |-> c, code |-> IF d.num THEN toString(d.n, 10) ELSE d.s]
            hex == [cat |-> c, code |-> <<"0", "x">> \o toString(d.n, 16)]
            found == exact \in optRows \/ (d.num /\ hex \in optRows)
        IN /\ dfl[c] \in {"insert", "ok", "err"} => found
           /\ dfl[c] = "nomatch" => ~found
           /\ dfl[c] = "ok" =>
                /\ [cat |-> c, ref |-> IF exact \in optRows THEN exact ELSE hex] \in defRows
                /\ \A r \in defRows : r.cat = c =>
                     /\ r.ref = (IF exact \in optRows THEN exact ELSE hex)
                     /\ r.ref.cat = c
                     /\ r.ref \in optRows

\* The number 16 was declared where the options 16 and 0x10 both exist, and
\* the default row refers to the option 16.
C29_Witness ==
  /\ mode = "manifest"
  /\ ~prior
  /\ dfl["manufacturerCodes"] = "ok"
  /\ DefaultOf(ctx, "manufacturerCodes").num
  /\ DefaultOf(ctx, "manufacturerCodes").n = 16
  /\ [cat |-> "manufacturerCodes", code |-> <<"0", "x", "1", "0">>] \in optRows
  /\ [cat |-> "manufacturerCodes", code |-> <<"1", "6">>] \in optRows
  /\ defRows = {[cat |-> "manufacturerCodes",
                 ref |-> [cat |-> "manufacturerCodes", code |-> <<"1", "6">>]]}

\* The position of a post-load step in the order of loadSilabsZcl (0: the
\* step is none of them).
PostStepIndex(name) ==
  IF \E i \in DOMAIN PostSteps : PostSteps[i] = name
  THEN CHOOSE i \in DOMAIN PostSteps : PostSteps[i] = name
  ELSE 0

\* The loading of the files has finished: every file has returned its
\* tasks, no insertion and no task is in flight, and processZclPostLoading
\* has run.
FileLoadingFinished ==
  /\ TraceCount("parseZclFiles") = 1
  /\ \A f \in Files : fret[f].state = "tasks"
  /\ PhaseComplete(InsertTags)
  /\ Step3AllDone
  /\ post = 1

\* C30: in loadSilabsZcl the post-load steps run one after the other, in
\* the order manufacturer codes, custom device type, options, defaults,
\* schema and validation records, and all of them after the loading of the
\* files has finished; no lookup of a default value starts before every
\* option insert of parseOptions has completed.
C30_PostLoadStepsInOrder ==
  mode = "manifest" =>
    /\ \A i, j \in DOMAIN trace :
         (i < j /\ PostStepIndex(trace[i]) # 0) =>
           PostStepIndex(trace[i]) < PostStepIndex(trace[j])
    /\ (\E i \in DOMAIN trace : PostStepIndex(trace[i]) # 0) => FileLoadingFinished
    /\ (pc \in {"parseManufacturerData", "processCustomZclDeviceType", "parseOptions",
                "parseDefaults", "parseZclSchema"}) => FileLoadingFinished
    /\ (TraceCount("parseDefaults") # 0 \/ \E c \in Cats : dfl[c] # "none") =>
         /\ \A c \in Cats : optIns[c] \in {"none", "ok"}
         /\ \A c \in OptionCats(ctx) : optIns[c] = "ok"
         /\ ctx.options => TraceCount("parseOptions") = 1
    /\ TraceCount("parseZclSchema") # 0 =>
         /\ \A c \in Cats : dfl[c] \in {"none", "ok"}
         /\ \A c \in DefaultCats(ctx) : dfl[c] = "ok"

\* The five post-load steps have run, in their order, after the files.
C30_Witness ==
  /\ mode = "manifest"
  /\ result.state = "resolved"
  /\ Len(trace) >= 5
  /\ SubSeq(trace, Len(trace) - 4, Len(trace)) = PostSteps
  /\ \A c \in OptionCats(ctx) : optIns[c] = "ok"
  /\ \A c \in DefaultCats(ctx) : dfl[c] = "ok"
  /\ Cardinality(DefaultCats(ctx)) >= 2

\* C31: processZclPostLoading is invoked at most once per load and exactly
\* once in a load that succeeds, only after every phase-3 task of every file
\* of the load has completed, and not at all when a phase-3 task failed.
C31_PostLoadingOnceAfterPhase3 ==
  /\ post <= 1
  /\ post = 1 =>
       \A f \in LoadFiles :
         /\ fret[f].state = "tasks"
         /\ \A i \in 1..Len(fret[f].tasks) : p3[f][fret[f].tasks[i]] = "ok"
         /\ \A t \in Step3Tasks : p3[f][t] \in {"none", "ok"}
  /\ (\E f \in Files, t \in Step3Tasks : p3[f][t] = "err") => post = 0
  /\ (pc = "done" /\ result.state = "resolved" /\ result.succeeded) => post = 1

C31_Witness ==
  /\ mode = "manifest"
  /\ post = 1
  /\ p3[1]["globalAttribute"] = "ok"
  /\ p3[2]["clusterExtension"] = "ok"

\* The number of digits 1 in the binary form of the number n >= 0.
RECURSIVE SetBits(_)
SetBits(n) == IF n = 0 THEN 0 ELSE (n % 2) + SetBits(n \div 2)

\* C32: every prepared bitmap field carries the type derived from the number
\* of set bits of its own mask: bool for at most 1 set bit, enum8 for 2 to
\* 8, enum16 for 9 to 16 and enum32 for more than 16.
C32_MaskToType ==
  (pout.done /\ pin.fn = "prepareBitmap") =>
    /\ Len(pout.value.fields) = Len(pin.arg.field)
    /\ \A i \in 1..Len(pin.arg.field) :
         LET field == pout.value.fields[i]
             bits == IF field.mask = JsNaN THEN 0 ELSE SetBits(field.mask)
         IN /\ field.mask = parseInt(pin.arg.field[i].mask, 0)
            /\ field.type = (CASE bits <= 1 -> "bool"
                               [] bits \in 2..8 -> "enum8"
                               [] bits \in 9..16 -> "enum16"
                               [] OTHER -> "enum32")

\* A bitmap was prepared whose fields have masks of 1, of 8 and of 17 bits,
\* or of 2, of 9 and of 16 bits.
C32_Witness ==
  /\ pout.done
  /\ pin.fn = "prepareBitmap"
  /\ Len(pout.value.fields) = 3
  /\ LET types == [i \in 1..3 |-> pout.value.fields[i].type]
         masks == [i \in 1..3 |-> pout.value.fields[i].mask]
     IN \/ types = <<"bool", "enum8", "enum32">> /\ masks = <<16, 255, 131071>>
        \/ types = <<"enum8", "enum16", "enum16">> /\ masks = <<10, 511, 65535>>

\* The positions of the arguments of list src that are not removed, in order.
RECURSIVE KeptPositions(_, _)
KeptPositions(src, i) ==
  IF i > Len(src) THEN <<>>
  ELSE (IF src[i].removedIn = Undefined THEN <<i>> ELSE <<>>) \o KeptPositions(src, i + 1)

\* The ordinal of every prepared argument is its zero-based position among
\* all arguments of the command in the source, and the ordinals increase
\* strictly along the prepared list.
OrdinalsArePositions(src, out) ==
  /\ Len(out) = Len(KeptPositions(src, 1))
  /\ \A j \in 1..Len(out) :
       /\ out[j].ordinal = KeptPositions(src, 1)[j] - 1
       /\ out[j].name = src[KeptPositions(src, 1)[j]].name
  /\ \A j \in 1..(Len(out) - 1) : out[j].ordinal < out[j + 1].ordinal

\* The ordinals of the prepared list are 0..M-1, M the length of the list.
OrdinalsDense(out) == {out[j].ordinal : j \in 1..Len(out)} = 0..(Len(out) - 1)

\* C33, as stated: the ordinal of every prepared argument is its zero-based
\* position among all arguments of the command in the source, ordinals
\* increase strictly, and they form 0..M-1 only when no argument of the
\* command was removed.
C33_OrdinalsNotRenumbered ==
  (pout.done /\ pin.fn = "prepareCluster") =>
    \A c \in 1..Len(pin.arg.command) :
      LET src == pin.arg.command[c].arg
          out == pout.value.commands[c].args
      IN /\ OrdinalsArePositions(src, out)
         /\ OrdinalsDense(out) => \A i \in 1..Len(src) : src[i].removedIn = Undefined

\* C33, amended: the ordinal of every prepared argument is its zero-based
\* position among all arguments of the command in the source, ordinals
\* increase strictly, and they form 0..M-1 exactly when no removed argument
\* comes before an argument that is kept.
C33_OrdinalsNotRenumberedAmended ==
  (pout.done /\ pin.fn = "prepareCluster") =>
    \A c \in 1..Len(pin.arg.command) :
      LET src == pin.arg.command[c].arg
          out == pout.value.commands[c].args
      IN /\ OrdinalsArePositions(src, out)
         /\ OrdinalsDense(out) <=>
              \A i \in 1..Len(src), k \in 1..Len(src) :
                (i < k /\ src[i].removedIn # Undefined) => src[k].removedIn # Undefined

\* A command was prepared whose second argument of three is removed: the
\* arguments kept have the ordinals 0 and 2.
C33_Witness ==
  /\ pout.done
  /\ pin.fn = "prepareCluster"
  /\ Len(pin.arg.command) = 1
  /\ LET src == pin.arg.command[1].arg
         out == pout.value.commands[1].args
     IN /\ Len(src) = 3
        /\ src[1].removedIn = Undefined
        /\ src[2].removedIn # Undefined
        /\ src[3].removedIn = Undefined
        /\ [j \in 1..Len(out) |-> out[j].ordinal] = <<0, 2>>

\* C34: the attribute list of a prepared cluster or cluster extension holds
\* no attribute whose source element has removedIn set, and holds every
\* attribute without removedIn, in source order.
C34_RemovedAttributesExcluded ==
  (pout.done /\ pin.fn = "prepareCluster") =>
    LET src == pin.arg.attribute
        out == pout.value.attributes
    IN /\ \A j \in 1..Len(out) : out[j].removedIn = Undefined
       /\ NamesOf(out) = NamesOf(SelectSeq(src, LAMBDA a : a.removedIn = Undefined))

\* A cluster extension was prepared whose second attribute of three is
\* removed and whose other attributes differ.
C34_Witness ==
  /\ pout.done
  /\ pin.fn = "prepareCluster"
  /\ pin.isExtension
  /\ Len(pin.arg.attribute) = 3
  /\ pin.arg.attribute[1].removedIn = Undefined
  /\ pin.arg.attribute[2].removedIn # Undefined
  /\ pin.arg.attribute[3].removedIn = Undefined
  /\ NamesOf(pin.arg.attribute) = <<"a", "a", "b">>
  /\ NamesOf(pout.value.attributes) = <<"a", "b">>

\* C35: when the promise returned by loadSilabsZcl has settled, resolved or
\* rejected, the commit of the transaction it began has completed: every
\* row of the load is visible to a reader.
C35_SettledAfterCommit ==
  (mode = "manifest" /\ result.state # "pending" /\ beginCount = 1) =>
    /\ tx = "committed"
    /\ uncommitted = {}

\* A store operation started by the load has not completed.
OperationInFlight ==
  \/ \E f \in Files, t \in InsertTags : ins[f][t] \in {"inflight", "inflight2"}
  \/ \E f \in Files, t \in Step3Tasks : p3[f][t] = "inflight"
  \/ \E c \in Cats : optIns[c] = "inflight"
  \/ \E c \in Cats : dfl[c] \in {"select", "insert"}

\* C36: every store operation started by a loadSilabsZcl call is issued
\* after its transaction has begun and has completed before its commit is
\* issued, on the failure paths too: once the commit is issued no operation
\* of the load is in flight or yet to start.
C36_OperationsInsideTransaction ==
  mode = "manifest" =>
    /\ beginCount = 0 => (~OperationInFlight /\ trace = <<>>)
    /\ tx \in {"commitIssued", "committed"} => ~OperationInFlight

\* C37: across any sequence or interleaving of cluster requests the
\* defaults of a cluster are inserted at most once for its endpointTypeId,
\* id and side, and insertClusterDefaults runs only for a request that found
\* no state of the cluster.
C37_DefaultsAtMostOnce ==
  /\ \A t \in Triples : clusterDefaults[t] <= 1
  /\ \A r \in Posts : posts[r].at = "defaults" => posts[r].insertDefaults

\* C38: every cluster request whose promise chain has run to its end has
\* received exactly one response, 200 with the echoed endpointTypeId, id,
\* side and flag or 400, and no request ever receives two; also when the
\* session has no zclProperties package and when getClusterState rejects.
C38_ExactlyOneResponse ==
  \A r \in Posts :
    /\ Len(posts[r].responses) <= 1
    /\ posts[r].at \in {"sent", "unhandled"} =>
         /\ Len(posts[r].responses) = 1
         /\ \/ posts[r].responses[1] =
                 [code |-> 200, body |-> <<posts[r].triple, posts[r].flag>>]
            \/ posts[r].responses[1] = [code |-> 400, body |-> <<>>]

\* C39: for a cluster that declares global attributes, the cluster code that
\* prepareClusterGlobalAttribute stores with the defaults is the code under
\* which prepareCluster inserts the cluster, whether the code is written in
\* decimal or with the prefix 0x.
C39_SameClusterCode ==
  (pout.done /\ pin.fn = "prepareClusterGlobalAttribute" /\ ~pout.value.null) =>
    pout.value.code = prepareCluster(pin.arg, FALSE).code

\* The entries of a list of the manifest that exist under one of the roots.
FoundEntries(xmlRoot, xmlFile, existing) ==
  SelectSeq(xmlFile, LAMBDA x : \E k \in 1..Len(xmlRoot) : <<"dir", xmlRoot[k], x>> \in existing)

\* C40: an xmlFile entry of the manifest that is found under none of the
\* xmlRoot candidates is left out of ctx.zclFiles and no error is raised;
\* the entries that are found keep their order in the manifest, and each is
\* resolved under the leftmost root candidate under which it exists.
C40_MissingFilesOmitted ==
  (pin.fn = "collectDataFromJsonFile" /\ pout.done) =>
    LET xmlRoot == pin.arg.xmlRoot
        found == FoundEntries(xmlRoot, pin.arg.xmlFile, pin.arg.existing)
        out == pout.value.zclFiles
    IN /\ Len(out) = Len(found)
       /\ \A j \in 1..Len(found) :
            \E k \in 1..Len(xmlRoot) :
              /\ out[j] = <<"dir", xmlRoot[k], found[j]>>
              /\ out[j] \in pin.arg.existing
              /\ \A h \in 1..(k - 1) : <<"dir", xmlRoot[h], found[j]>> \notin pin.arg.existing

\* A manifest with the roots s, r and three entries was collected: the
\* first entry exists under the second root only, the second under no
\* root, the third under both roots.
C40_Witness ==
  /\ pin.fn = "collectDataFromJsonFile"
  /\ pout.done
  /\ pin.arg.xmlRoot = <<"s", "r">>
  /\ pin.arg.xmlFile = <<"c", "b", "a">>
  /\ pin.arg.existing = {<<"dir", "r", "c">>, <<"dir", "r", "a">>, <<"dir", "s", "a">>}
  /\ pout.value.zclFiles = <<<<"dir", "r", "c">>, <<"dir", "s", "a">>>>

====
